---- MODULE Spec2Model ----
(***************************************************************************)
(* Model of the protocol client of bevy_debugger_mcp.                       *)
(*                                                                         *)
(* Two implementations of the client live in the repository:              *)
(*   "legacy"      src/src/brp_client.rs, shared as Arc<RwLock<BrpClient>> *)
(*                 (src/src/main.rs); every method takes &mut self, so a   *)
(*                 caller holds the write guard for the whole call;        *)
(*   "refactored"  src/src/brp_client_refactored.rs, shared as             *)
(*                 Arc<BrpClient> with an internal Mutex<BrpClientState>.  *)
(* Both have the same fields; impl says which code is running.             *)
(***************************************************************************)
EXTENDS Integers, Sequences, FiniteSets, TLC

\* ------------------------------------------------------------------ bounds
MaxSock == 2          \* connections the remote accepts in one run
MaxReq == 2           \* requests issued in one run of Spec
MaxInbound == 1       \* frames buffered on the socket, not yet read
MaxBatchReq == 12     \* requests issued in one run of SpecBatch
max_retries == 7      \* Config.max_retries of the refactored client

\* ------------------------------------------------------- program constants
MAX_RETRIES == 5      \* brp_client.rs:55
MAX_BATCH == 10       \* brp_client.rs:207
BACKOFF_CAP == 5      \* brp_client.rs:67, brp_client_refactored.rs:165

Callers == {"c1", "c2"}
NoSock == 0
Socks == 1..MaxSock

VARIABLES
    impl,                    \* "legacy" | "refactored"
    resource_manager,        \* BOOLEAN: Option<ResourceManager> is Some
    ws_stream,               \* NoSock (None) or the socket held
    connected,               \* the connected flag
    retry_count,             \* the retry counter
    request_queue,           \* VecDeque<BatchedRequest>: request ids, front first
    batch_processor_handle,  \* BOOLEAN: Option<JoinHandle> is Some
    batch_task,              \* the spawned task: "none" | "tick" | "process" | "reject"
    batch,                   \* the Vec the task drained and is working through
    sent_log,                \* ids of the requests the task sent a result for, in order
    lock,                    \* holder of the lock around the client state, or "none"
    pc,                      \* each caller's position
    op,                      \* each caller's current (or last) operation
    result,                  \* what the caller's last call returned
    attempts,                \* connection attempts made by the caller's current call
    attempt,                 \* the refactored connect's loop variable
    delay,                   \* the last backoff delay of the caller's connect, in base delays
    call_conn,               \* the connected flag when the caller's call began
    cur,                     \* id of the request of the caller's current call
    chan,                    \* the caller's response channel: empty, closed, or the result sent
    next_id,                 \* next request id
    socks,                   \* every socket: "unused" | "open" | "closed" | "overwritten"
    reachable,               \* whether the remote accepts a connection now
    inbound,                 \* frames that arrived on ws_stream, oldest first
    remote_pending,          \* requests the remote has read and not yet answered
    arguments,               \* the arguments of the pipeline call being handled
    phase,                   \* the pipeline run: "idle" | "submitted" | "executing" | "backoff"
                             \*   | "rejected" | "completed" | "aborted"
    idx,                     \* position in the execution order of the step at hand
    step_attempts,           \* executor invocations made for the step at hand
    waits,                   \* backoff waits slept for the step at hand, in ms
    exec_log,                \* the steps whose executor was invoked, in order
    results,                 \* ToolContext.results of the run, in the order appended
    invocations,             \* executor invocations of the run
    presult,                 \* what the pipeline call returned
    execution_count,         \* ToolContext.metadata.execution_count
    variables,               \* ToolContext.variables
    last_call,               \* the call last made on the ToolContext
    fn_args,                 \* the arguments of the function under check
    fn_result,               \* what the function returned; NoReturn before the call
    graph,                   \* DependencyGraph: the edges <<dependent, dependency>> recorded
    next_execution_id,       \* the process-wide source of ExecutionId values
    minted,                  \* every ExecutionId minted, with the caller, in order
    now,                     \* the clock: seconds for the RateLimiter, hours for the tokens
    config,                  \* RateLimiter.config
    user_buckets,            \* RateLimiter.user_buckets: user -> RateLimitBucket or NoBucket
    operation_buckets,       \* RateLimiter.operation_buckets: <<user, operation>> -> OperationBucket
    violation_count,         \* RateLimiter.violation_count
    decisions,               \* the calls made on the RateLimiter and what they returned, in order
    service,                 \* "JwtService" | "SecurityManager"
    issued,                  \* token -> the time it was issued (iat), or NotIssued
    revoked_tokens,          \* token -> the time it was put on the revocation list, or NotRevoked
    active_sessions,         \* session -> its last activity, or NoSession; token t has session t
    auth_pc,                 \* each caller's position in its validate_token / revoke_token call
    auth_op,                 \* each caller's current (or last) call on the service
    auth_result,             \* what the caller's last call returned
    revoked_ok,              \* the tokens for which a revoke_token call has returned Ok
    cells,                   \* LazyComponents: component -> the instance in its OnceCell, or NoInstance
    constructed,             \* component -> how many times its constructor has run
    init_mutex,              \* LazyComponents.init_mutex: "none" or the task that holds it
    lz_stack,                \* each task's getter calls in progress, the innermost last
    lz_log,                  \* every getter call that has returned: task, component, instance
    lz_calls,                \* getter calls made by the tasks themselves
    dlq_config,              \* DeadLetterQueue.config
    dlq_queue,               \* DeadLetterQueue.queue, the front first
    dlq_lock,                \* the write lock of the queue: "none", a caller or "cleanup"
    dlq_pc,                  \* each caller's position in add_failed_operation
    dlq_op,                  \* the FailedOperation the caller is adding
    dlq_before,              \* the queue as the caller found it when it took the lock
    dlq_now,                 \* the clock of the dead letter queue, in seconds
    dlq_next_id,             \* the id of the next FailedOperation
    dlq_spin                 \* the parity of the iterations made by the make-room loop

clientVars == <<ws_stream, connected, retry_count, request_queue, batch_processor_handle>>
taskVars == <<batch_task, batch, sent_log>>
callVars == <<pc, op, result, attempts, attempt, delay, call_conn, cur, chan, next_id>>
envVars == <<socks, reachable, inbound, remote_pending>>
brpVars == <<impl, resource_manager, clientVars, taskVars, lock, callVars, envVars>>
ctxVars == <<variables, last_call>>
pipeVars == <<arguments, phase, idx, step_attempts, waits, exec_log, results, invocations, presult,
              execution_count, ctxVars>>
fnVars == <<fn_args, fn_result>>
idVars == <<next_execution_id, minted>>
rlVars == <<now, config, user_buckets, operation_buckets, violation_count, decisions>>
limiterVars == <<config, user_buckets, operation_buckets, violation_count, decisions>>
authVars == <<service, issued, revoked_tokens, active_sessions, auth_pc, auth_op, auth_result,
              revoked_ok>>
lazyVars == <<cells, constructed, init_mutex, lz_stack, lz_log, lz_calls>>
dlqVars == <<dlq_config, dlq_queue, dlq_lock, dlq_pc, dlq_op, dlq_before, dlq_now, dlq_next_id,
             dlq_spin>>
tailVars == <<lazyVars, dlqVars>>
otherVars == <<fnVars, graph, idVars, rlVars, authVars, tailVars>>
vars == <<brpVars, pipeVars, otherVars>>

\* ----------------------------------------------------------------- results
Res(kind, why, resp) == [kind |-> kind, why |-> why, resp |-> resp]
NoResult == Res("none", "", 0)
OkUnit == Res("Ok", "", 0)
ChanEmpty == Res("empty", "", 0)
ChanClosed == Res("closed", "", 0)
Frame(kind, id) == [kind |-> kind, id |-> id]

\* ------------------------------------------------------------------- Init
\* The results of the pipeline handler.
PipeRes(kind, why, step, tool, failures) ==
    [kind |-> kind, why |-> why, step |-> step, tool |-> tool, failures |-> failures]
NoPipeRes == PipeRes("none", "", 0, "", {})
NoArguments == [kind |-> "none", template |-> "", steps |-> <<>>, fail_fast |-> FALSE, fails |-> 0]

\* The keys of the context's variables; a key maps to "unset" when absent.
VarKeys == {"k1", "k2"}
NoVariables == [k \in VarKeys |-> "unset"]
Call(name, key, ok) == [name |-> name, key |-> key, ok |-> ok]
NoCall == Call("none", "", FALSE)

\* ToolContext::new()
NewContext ==
    /\ results = <<>>
    /\ execution_count = 0
    /\ variables = NoVariables
    /\ last_call = NoCall

\* No pipeline call is being handled.
PipeIdle ==
    /\ arguments = NoArguments
    /\ phase = "idle"
    /\ idx = 0
    /\ step_attempts = 0
    /\ waits = <<>>
    /\ exec_log = <<>>
    /\ NewContext
    /\ invocations = 0
    /\ presult = NoPipeRes

BrpInit ==
    /\ impl \in {"legacy", "refactored"}
    /\ resource_manager \in BOOLEAN
    /\ ws_stream = NoSock
    /\ connected = FALSE
    /\ retry_count = 0
    /\ request_queue = <<>>
    /\ batch_processor_handle = FALSE
    /\ batch_task = "none"
    /\ batch = <<>>
    /\ sent_log = <<>>
    /\ lock = "none"
    /\ pc = [c \in Callers |-> "idle"]
    /\ op = [c \in Callers |-> "none"]
    /\ result = [c \in Callers |-> NoResult]
    /\ attempts = [c \in Callers |-> 0]
    /\ attempt = [c \in Callers |-> 0]
    /\ delay = [c \in Callers |-> 0]
    /\ call_conn = [c \in Callers |-> FALSE]
    /\ cur = [c \in Callers |-> 0]
    /\ chan = [c \in Callers |-> ChanEmpty]
    /\ next_id = 1
    /\ socks = [s \in Socks |-> "unused"]
    /\ reachable \in BOOLEAN
    /\ inbound = <<>>
    /\ remote_pending = <<>>

\* No function is under check.
NoReturn == [kind |-> "none"]
FnIdle == fn_args = <<>> /\ fn_result = NoReturn

IdIdle == next_execution_id = 1 /\ minted = <<>>

\* RateLimiter::new(config)
Users == {"test_user"}
Operations == {"test_op", "stress_test"}
NoBucket == [requests_this_minute |-> -1]
NewLimiter ==
    /\ user_buckets = [u \in Users |-> NoBucket]
    /\ operation_buckets = [k \in Users \X Operations |-> NoBucket]
    /\ violation_count = 0
    /\ decisions = <<>>

NoConfig == [requests_per_minute |-> 0]
RlIdle == now = 0 /\ config = NoConfig /\ NewLimiter

\* JwtService::new / SecurityManager::new: no token, no session, no call
MaxTokens == 2
Tokens == 1..MaxTokens
NotIssued == -1
NotRevoked == -1
NoSession == -1
NoAuthOp == [op |-> "none", token |-> 0, after_revoke |-> FALSE]
AuthRes(kind, why) == [kind |-> kind, why |-> why]
NoAuthRes == AuthRes("none", "")
NewService ==
    /\ issued = [t \in Tokens |-> NotIssued]
    /\ revoked_tokens = [t \in Tokens |-> NotRevoked]
    /\ active_sessions = [t \in Tokens |-> NoSession]
    /\ auth_pc = [c \in Callers |-> "idle"]
    /\ auth_op = [c \in Callers |-> NoAuthOp]
    /\ auth_result = [c \in Callers |-> NoAuthRes]
    /\ revoked_ok = {}

AuthIdle == service = "JwtService" /\ NewService

\* The components of LazyComponents that are modelled: two without
\* dependencies, the two processors built from them, and the router. The six
\* processors without dependencies that the router also registers are left out.
Components == {"entity_inspector", "system_profiler", "entity_processor",
               "profiler_processor", "debug_command_router"}
NoInstance == 0

\* LazyComponents::new: every cell empty, the mutex free
LazyIdle ==
    /\ cells = [k \in Components |-> NoInstance]
    /\ constructed = [k \in Components |-> 0]
    /\ init_mutex = "none"
    /\ lz_stack = [t \in Callers |-> <<>>]
    /\ lz_log = {}
    /\ lz_calls = 0

NoFailedOperation == [id |-> 0, failed_timestamp |-> 0]
NoDlqConfig == [max_size |-> -1, retention_period_secs |-> 0,
                persist_to_disk |-> FALSE, persistence_path |-> FALSE]

\* DeadLetterQueue::new: an empty queue
NewQueue ==
    /\ dlq_queue = <<>>
    /\ dlq_lock = "none"
    /\ dlq_pc = [c \in Callers |-> "idle"]
    /\ dlq_op = [c \in Callers |-> NoFailedOperation]
    /\ dlq_before = [c \in Callers |-> <<>>]
    /\ dlq_now = 0
    /\ dlq_next_id = 1
    /\ dlq_spin = FALSE

DlqIdle == dlq_config = NoDlqConfig /\ NewQueue

TailIdle == LazyIdle /\ DlqIdle

OtherIdle == FnIdle /\ graph = {} /\ IdIdle /\ RlIdle /\ AuthIdle /\ TailIdle

\* The client at rest and no pipeline call: the start of the runs that are
\* about another component.
BridgeIdle ==
    /\ BrpInit
    /\ impl = "legacy" /\ ~resource_manager /\ ~reachable
    /\ PipeIdle

Init == BrpInit /\ PipeIdle /\ OtherIdle

\* ------------------------------------------------------------- the socket
HasFresh == \E s \in Socks : socks[s] = "unused"
\* connect_async would succeed now
CanAccept == reachable /\ HasFresh
FreshSock == CHOOSE s \in Socks : socks[s] = "unused" /\ \A t \in Socks : t < s => socks[t] # "unused"

\* connect_async succeeded and the stream is stored in ws_stream: the Option's
\* previous value, if any, is dropped without a close handshake.
StoreStream(ss, old) ==
    [s \in Socks |-> IF s = FreshSock THEN "open"
                     ELSE IF s = old THEN "overwritten"
                     ELSE ss[s]]

\* ws_stream.take() followed by close(None)
CloseStream(ss, old) ==
    [s \in Socks |-> IF s = old THEN "closed" ELSE ss[s]]

\* ------------------------------------------------------------ call frames
\* A caller begins operation o.
Begin(c, o) ==
    /\ pc[c] = "idle"
    /\ op' = [op EXCEPT ![c] = o]
    /\ attempts' = [attempts EXCEPT ![c] = 0]
    /\ attempt' = [attempt EXCEPT ![c] = 0]
    /\ delay' = [delay EXCEPT ![c] = 0]
    /\ call_conn' = [call_conn EXCEPT ![c] = connected]

\* The caller's frame once a call is over.
IdleFrame(c) ==
    /\ pc' = [pc EXCEPT ![c] = "idle"]
    /\ op' = [op EXCEPT ![c] = "none"]
    /\ result' = [result EXCEPT ![c] = NoResult]
    /\ attempts' = [attempts EXCEPT ![c] = 0]
    /\ attempt' = [attempt EXCEPT ![c] = 0]
    /\ delay' = [delay EXCEPT ![c] = 0]
    /\ call_conn' = [call_conn EXCEPT ![c] = FALSE]
    /\ cur' = [cur EXCEPT ![c] = 0]
    /\ chan' = [chan EXCEPT ![c] = ChanEmpty]

\* The call has returned and the caller drops whatever guard it holds.
Return(c) ==
    /\ pc[c] = "ret"
    /\ IdleFrame(c)
    /\ lock' = IF lock = c THEN "none" ELSE lock
    /\ UNCHANGED <<impl, resource_manager, clientVars, taskVars, envVars, next_id>>
    /\ UNCHANGED <<pipeVars, otherVars>>

\* ------------------------------------------------------------ backoff
Min(a, b) == IF a < b THEN a ELSE b

\* A backoff that doubles without a cap.
BackoffUncapped(n) == 2^n

\* The delay before the next attempt, in units of the base delay:
\* BASE_DELAY * 2_u32.pow(n.min(5)), retry_delay_ms * (1 << n.min(5))
Backoff(n) == 2^Min(n, BACKOFF_CAP)

\* ------------------------------------------------- legacy: the guard
\* A caller that does not wait for the guard.
ClientFreeUnguarded == TRUE

\* brp_client.write().await: the caller gets the client once nobody holds it.
ClientFree == lock = "none"

\* ------------------------------------------- legacy: connect_with_retry
\* The loop test off by one.
CanRetryOffByOne == retry_count <= MAX_RETRIES

\* while self.retry_count < MAX_RETRIES
CanRetry == retry_count < MAX_RETRIES

\* main.rs: client = brp_client.write().await; client.connect_with_retry()
LConnectCall(c) ==
    /\ impl = "legacy"
    /\ ClientFree
    /\ Begin(c, "connect")
    /\ lock' = c
    /\ pc' = [pc EXCEPT ![c] = "cwr_loop"]
    /\ UNCHANGED <<impl, resource_manager, clientVars, taskVars, envVars, result, cur, chan, next_id>>
    /\ UNCHANGED <<pipeVars, otherVars>>

\* One turn of the while loop: the loop test, then connect().
LConnectLoop(c) ==
    /\ impl = "legacy"
    /\ pc[c] = "cwr_loop"
    /\ IF ~CanRetry
       THEN /\ result' = [result EXCEPT ![c] = Res("Connection", "exhausted", 0)]
            /\ pc' = [pc EXCEPT ![c] = "ret"]
            /\ UNCHANGED <<clientVars, envVars, attempts, delay>>
       ELSE /\ attempts' = [attempts EXCEPT ![c] = @ + 1]
            /\ IF CanAccept
               THEN /\ socks' = StoreStream(socks, ws_stream)
                    /\ ws_stream' = FreshSock
                    /\ connected' = TRUE
                    /\ retry_count' = 0
                    /\ inbound' = <<>>
                    /\ remote_pending' = <<>>
                    /\ result' = [result EXCEPT ![c] = OkUnit]
                    /\ pc' = [pc EXCEPT ![c] = "ret"]
                    /\ UNCHANGED <<request_queue, batch_processor_handle, reachable, delay>>
               ELSE /\ retry_count' = retry_count + 1
                    /\ delay' = [delay EXCEPT ![c] = Backoff(retry_count + 1)]
                    /\ pc' = [pc EXCEPT ![c] = "cwr_sleep"]
                    /\ UNCHANGED <<ws_stream, connected, request_queue, batch_processor_handle>>
                    /\ UNCHANGED <<envVars, result>>
    /\ UNCHANGED <<impl, resource_manager, taskVars, lock>>
    /\ UNCHANGED <<op, attempt, call_conn, cur, chan, next_id>>
    /\ UNCHANGED <<pipeVars, otherVars>>

\* tokio::time::sleep(delay) is over
LConnectWake(c) ==
    /\ impl = "legacy"
    /\ pc[c] = "cwr_sleep"
    /\ pc' = [pc EXCEPT ![c] = "cwr_loop"]
    /\ UNCHANGED <<impl, resource_manager, clientVars, taskVars, lock, envVars>>
    /\ UNCHANGED <<op, result, attempts, attempt, delay, call_conn, cur, chan, next_id>>
    /\ UNCHANGED <<pipeVars, otherVars>>

\* ------------------------------------------------------------ disconnect
ClientState ==
    [ws_stream |-> ws_stream, connected |-> connected, retry_count |-> retry_count,
     batch_processor_handle |-> batch_processor_handle, batch_task |-> batch_task,
     socks |-> socks]

\* brp_client.rs disconnect: take and close the stream, clear the flag
LDisconnectState(s) ==
    [s EXCEPT !.socks = CloseStream(s.socks, s.ws_stream),
              !.ws_stream = NoSock,
              !.connected = FALSE]

\* brp_client_refactored.rs disconnect_internal
RDisconnectState(s) ==
    IF ~s.connected
    THEN s
    ELSE [s EXCEPT !.batch_processor_handle = FALSE,
                   !.batch_task = "none",
                   !.socks = CloseStream(s.socks, s.ws_stream),
                   !.ws_stream = NoSock,
                   !.connected = FALSE]

\* A disconnect that also resets the retry counter.
DisconnectResetsRetries(s) ==
    [LDisconnectState(s) EXCEPT !.retry_count = 0]

DisconnectState(s) ==
    IF impl = "legacy" THEN LDisconnectState(s) ELSE RDisconnectState(s)

\* The response senders held by an aborted task are dropped: a caller still
\* waiting on one of them finds its channel closed.
DropBatch(ch, dropped) ==
    [c \in Callers |->
        IF pc[c] = "bwait" /\ ch[c] = ChanEmpty /\ \E i \in 1..Len(dropped) : dropped[i] = cur[c]
        THEN ChanClosed ELSE ch[c]]

\* The variables after the client state became t.
ApplyClientState(t) ==
    /\ ws_stream' = t.ws_stream
    /\ connected' = t.connected
    /\ retry_count' = t.retry_count
    /\ batch_processor_handle' = t.batch_processor_handle
    /\ batch_task' = t.batch_task
    /\ socks' = t.socks
    /\ inbound' = IF t.ws_stream = ws_stream THEN inbound ELSE <<>>
    /\ remote_pending' = IF t.ws_stream = ws_stream THEN remote_pending ELSE <<>>
    /\ batch' = IF t.batch_task = "none" THEN <<>> ELSE batch

Disconnect(c) ==
    /\ lock = "none"
    /\ Begin(c, "disconnect")
    /\ lock' = c
    /\ ApplyClientState(DisconnectState(ClientState))
    /\ chan' = IF DisconnectState(ClientState).batch_task = "none" THEN DropBatch(chan, batch) ELSE chan
    /\ result' = [result EXCEPT ![c] = OkUnit]
    /\ pc' = [pc EXCEPT ![c] = "ret"]
    /\ UNCHANGED <<impl, resource_manager, request_queue, sent_log, reachable, cur, next_id>>
    /\ UNCHANGED <<pipeVars, otherVars>>

\* ------------------------------------------------- legacy: send_request
\* The admission oracle consulted by send_request (lines 105-124).
Admissions == IF resource_manager THEN {"ok", "rate_limit", "sampling"} ELSE {"ok"}

\* send_request up to and including send_message
LSendCall(c) ==
    /\ impl = "legacy"
    /\ ClientFree
    /\ next_id <= MaxReq
    /\ Begin(c, "send_request")
    /\ lock' = c
    /\ \E adm \in Admissions :
        IF adm # "ok"
        THEN /\ result' = [result EXCEPT ![c] = Res("Validation", adm, 0)]
             /\ pc' = [pc EXCEPT ![c] = "ret"]
             /\ UNCHANGED <<cur, next_id, remote_pending>>
        ELSE IF ws_stream = NoSock
        THEN /\ result' = [result EXCEPT ![c] = Res("Connection", "not_connected", 0)]
             /\ pc' = [pc EXCEPT ![c] = "ret"]
             /\ UNCHANGED <<cur, next_id, remote_pending>>
        ELSE /\ remote_pending' = Append(remote_pending, next_id)
             /\ cur' = [cur EXCEPT ![c] = next_id]
             /\ next_id' = next_id + 1
             /\ pc' = [pc EXCEPT ![c] = "recv"]
             /\ UNCHANGED result
    /\ UNCHANGED <<impl, resource_manager, clientVars, taskVars, chan>>
    /\ UNCHANGED <<socks, reachable, inbound>>
    /\ UNCHANGED <<pipeVars, otherVars>>

\* What send_request_internal makes of the frame receive_message read.
ResponseOf(f) ==
    CASE f.kind = "Text" -> Res("Ok", "response", f.id)
      [] f.kind = "Err" -> Res("WebSocket", "error", 0)
      [] OTHER -> Res("Connection", "closed", 0)

\* timeout(5 s, receive_message()): the next frame, or the timeout
LSendRecv(c) ==
    /\ impl = "legacy"
    /\ pc[c] = "recv"
    /\ IF inbound = <<>>
       THEN /\ result' = [result EXCEPT ![c] = Res("Connection", "timeout", 0)]
            /\ UNCHANGED <<clientVars, envVars>>
       ELSE /\ result' = [result EXCEPT ![c] = ResponseOf(Head(inbound))]
            /\ IF Head(inbound).kind \in {"Close", "Err"}
               THEN /\ connected' = FALSE
                    /\ ws_stream' = NoSock
                    /\ socks' = CloseStream(socks, ws_stream)
                    /\ inbound' = <<>>
                    /\ remote_pending' = <<>>
               ELSE /\ inbound' = Tail(inbound)
                    /\ UNCHANGED <<connected, ws_stream, socks, remote_pending>>
            /\ UNCHANGED <<retry_count, request_queue, batch_processor_handle, reachable>>
    /\ pc' = [pc EXCEPT ![c] = "ret"]
    /\ UNCHANGED <<impl, resource_manager, taskVars, lock>>
    /\ UNCHANGED <<op, attempts, attempt, delay, call_conn, cur, chan, next_id>>
    /\ UNCHANGED <<pipeVars, otherVars>>

\* ------------------------------------------- legacy: the batched path
\* send_batched_request: push the request, then wait on the channel
LBatchedCall(c, bound) ==
    /\ impl = "legacy"
    /\ ClientFree
    /\ next_id <= bound
    /\ Begin(c, "send_batched")
    /\ lock' = c
    /\ request_queue' = Append(request_queue, next_id)
    /\ cur' = [cur EXCEPT ![c] = next_id]
    /\ chan' = [chan EXCEPT ![c] = ChanEmpty]
    /\ next_id' = next_id + 1
    /\ pc' = [pc EXCEPT ![c] = "bwait"]
    /\ UNCHANGED <<impl, resource_manager, taskVars, envVars, result>>
    /\ UNCHANGED <<ws_stream, connected, retry_count, batch_processor_handle>>
    /\ UNCHANGED <<pipeVars, otherVars>>

\* response_rx.recv() resolved
BatchedRecv(c) ==
    /\ pc[c] = "bwait"
    /\ chan[c] # ChanEmpty
    /\ result' = [result EXCEPT ![c] =
                    IF chan[c] = ChanClosed
                    THEN Res("Connection", "channel_closed", 0)
                    ELSE chan[c]]
    /\ pc' = [pc EXCEPT ![c] = "ret"]
    /\ UNCHANGED <<impl, resource_manager, clientVars, taskVars, lock, envVars>>
    /\ UNCHANGED <<op, attempts, attempt, delay, call_conn, cur, chan, next_id>>
    /\ UNCHANGED <<pipeVars, otherVars>>

\* The caller drops the future it is waiting on; the request stays queued.
BatchedCancel(c) ==
    /\ pc[c] = "bwait"
    /\ IdleFrame(c)
    /\ lock' = IF lock = c THEN "none" ELSE lock
    /\ UNCHANGED <<impl, resource_manager, clientVars, taskVars, envVars, next_id>>
    /\ UNCHANGED <<pipeVars, otherVars>>

StartBatch(c) ==
    /\ impl = "legacy"
    /\ ClientFree
    /\ Begin(c, "start_batch")
    /\ lock' = c
    /\ batch_processor_handle' = TRUE
    /\ batch_task' = IF batch_processor_handle THEN batch_task ELSE "tick"
    /\ result' = [result EXCEPT ![c] = OkUnit]
    /\ pc' = [pc EXCEPT ![c] = "ret"]
    /\ UNCHANGED <<impl, resource_manager, envVars, batch, sent_log, cur, chan, next_id>>
    /\ UNCHANGED <<ws_stream, connected, retry_count, request_queue>>
    /\ UNCHANGED <<pipeVars, otherVars>>

\* Where handle.abort() can end the task: at an await that can suspend it.
\* The interval's tick always can; inside a batch only the resource manager's
\* read lock and should_sample() are such awaits (lines 239-240), a send on a
\* fresh channel of capacity 1 is not, and the loop of lines 220-227 has no
\* other await: an abort requested there takes effect once the loop is over.
AbortPoint ==
    \/ batch_task \in {"none", "tick"}
    \/ batch_task = "process" /\ resource_manager

StopBatch(c) ==
    /\ impl = "legacy"
    /\ ClientFree
    /\ batch_processor_handle => AbortPoint
    /\ Begin(c, "stop_batch")
    /\ lock' = c
    /\ batch_processor_handle' = FALSE
    /\ batch_task' = IF batch_processor_handle THEN "none" ELSE batch_task
    /\ batch' = IF batch_processor_handle THEN <<>> ELSE batch
    /\ chan' = IF batch_processor_handle THEN DropBatch(chan, batch) ELSE chan
    /\ result' = [result EXCEPT ![c] = OkUnit]
    /\ pc' = [pc EXCEPT ![c] = "ret"]
    /\ UNCHANGED <<impl, resource_manager, envVars, sent_log, cur, next_id>>
    /\ UNCHANGED <<ws_stream, connected, retry_count, request_queue>>
    /\ UNCHANGED <<pipeVars, otherVars>>

\* ---------------------------------------------------- legacy: the task
\* A drain that takes the whole queue.
DrainAll(q) == <<q, <<>>>>

\* queue_guard.drain(..batch_size).collect(): <<drained, left>>
Drain(q) ==
    LET batch_size == Min(Len(q), MAX_BATCH)
    IN <<SubSeq(q, 1, batch_size), SubSeq(q, batch_size + 1, Len(q))>>

\* The task's verdicts after the drain: the admission check of the tick.
TickVerdicts == IF resource_manager THEN {"process", "reject"} ELSE {"process"}

\* One tick that finds requests: drain, then the admission check.
BatchTick ==
    /\ batch_task = "tick"
    /\ request_queue # <<>>
    /\ batch' = Drain(request_queue)[1]
    /\ request_queue' = Drain(request_queue)[2]
    /\ batch_task' \in TickVerdicts
    /\ UNCHANGED <<impl, resource_manager, sent_log, lock, callVars, envVars>>
    /\ UNCHANGED <<ws_stream, connected, retry_count, batch_processor_handle>>
    /\ UNCHANGED <<pipeVars, otherVars>>

\* A task that processes a batch whatever the admission check said.
OutcomesIgnoreVerdict ==
    IF resource_manager
    THEN {Res("Ok", "simulated", 0), Res("Validation", "sampling", 0)}
    ELSE {Res("Ok", "simulated", 0)}

\* The results the task may send for one request.
Outcomes ==
    IF batch_task = "reject" THEN {Res("Validation", "rate_limit", 0)}
    ELSE IF resource_manager
         THEN {Res("Ok", "simulated", 0), Res("Validation", "sampling", 0)}
         ELSE {Res("Ok", "simulated", 0)}

\* A send that reaches every waiting caller.
DeliverToAll(ch, r, res) ==
    [c \in Callers |->
        IF pc[c] = "bwait" /\ ch[c] = ChanEmpty THEN res ELSE ch[c]]

\* response_tx.send(result): it reaches the caller still waiting for request r.
Deliver(ch, r, res) ==
    [c \in Callers |->
        IF pc[c] = "bwait" /\ cur[c] = r /\ ch[c] = ChanEmpty THEN res ELSE ch[c]]

\* The task answers the next request of its batch.
BatchDeliver ==
    /\ batch_task \in {"process", "reject"}
    /\ batch # <<>>
    /\ \E res \in Outcomes : chan' = Deliver(chan, Head(batch), res)
    /\ sent_log' = Append(sent_log, Head(batch))
    /\ batch' = Tail(batch)
    /\ batch_task' = IF Tail(batch) = <<>> THEN "tick" ELSE batch_task
    /\ UNCHANGED <<impl, resource_manager, clientVars, lock, envVars>>
    /\ UNCHANGED <<pc, op, result, attempts, attempt, delay, call_conn, cur, next_id>>
    /\ UNCHANGED <<pipeVars, otherVars>>

\* ------------------------------------------------ refactored: connect
\* connect: lock the state, disconnect if connected, enter the retry loop
RConnectCall(c) ==
    /\ impl = "refactored"
    /\ lock = "none"
    /\ Begin(c, "connect")
    /\ lock' = c
    /\ ApplyClientState(RDisconnectState(ClientState))
    /\ pc' = [pc EXCEPT ![c] = "rc_attempt"]
    /\ UNCHANGED <<impl, resource_manager, request_queue, sent_log, reachable, result, cur, chan, next_id>>
    /\ UNCHANGED <<pipeVars, otherVars>>

\* The refactored loop goes on after a failed attempt.
RCanRetry(a) == a < max_retries

\* One connect_async of the loop, the state lock held.
RConnectAttempt(c) ==
    /\ impl = "refactored"
    /\ pc[c] = "rc_attempt"
    /\ lock = c
    /\ attempts' = [attempts EXCEPT ![c] = @ + 1]
    /\ IF CanAccept
       THEN /\ socks' = StoreStream(socks, ws_stream)
            /\ ws_stream' = FreshSock
            /\ connected' = TRUE
            /\ retry_count' = 0
            /\ inbound' = <<>>
            /\ remote_pending' = <<>>
            /\ result' = [result EXCEPT ![c] = OkUnit]
            /\ pc' = [pc EXCEPT ![c] = "ret"]
            /\ UNCHANGED <<lock, reachable, delay>>
       ELSE /\ retry_count' = attempt[c] + 1
            /\ IF RCanRetry(attempt[c])
               THEN /\ delay' = [delay EXCEPT ![c] = Backoff(attempt[c])]
                    /\ lock' = "none"
                    /\ pc' = [pc EXCEPT ![c] = "rc_sleep"]
                    /\ UNCHANGED result
               ELSE /\ result' = [result EXCEPT ![c] = Res("Connection", "exhausted", 0)]
                    /\ pc' = [pc EXCEPT ![c] = "ret"]
                    /\ UNCHANGED <<lock, delay>>
            /\ UNCHANGED <<ws_stream, connected, envVars>>
    /\ UNCHANGED <<impl, resource_manager, request_queue, batch_processor_handle, taskVars>>
    /\ UNCHANGED <<op, attempt, call_conn, cur, chan, next_id>>
    /\ UNCHANGED <<pipeVars, otherVars>>

\* The sleep is over: lock the state again and go round the loop.
RConnectWake(c) ==
    /\ impl = "refactored"
    /\ pc[c] = "rc_sleep"
    /\ lock = "none"
    /\ lock' = c
    /\ attempt' = [attempt EXCEPT ![c] = @ + 1]
    /\ pc' = [pc EXCEPT ![c] = "rc_attempt"]
    /\ UNCHANGED <<impl, resource_manager, clientVars, taskVars, envVars>>
    /\ UNCHANGED <<op, result, attempts, delay, call_conn, cur, chan, next_id>>
    /\ UNCHANGED <<pipeVars, otherVars>>

\* ------------------------------------------- refactored: send_request
\* The connected check, under the lock, which is then dropped.
RSendCheck(c) ==
    /\ impl = "refactored"
    /\ lock = "none"
    /\ next_id <= MaxReq
    /\ Begin(c, "send_batched")
    /\ IF ~connected
       THEN /\ result' = [result EXCEPT ![c] = Res("Connection", "not_connected", 0)]
            /\ pc' = [pc EXCEPT ![c] = "ret"]
       ELSE /\ pc' = [pc EXCEPT ![c] = "r_enqueue"]
            /\ UNCHANGED result
    /\ UNCHANGED <<impl, resource_manager, clientVars, taskVars, lock, envVars>>
    /\ UNCHANGED <<cur, chan, next_id>>
    /\ UNCHANGED <<pipeVars, otherVars>>

\* The lock taken again to push the request.
RSendEnqueue(c) ==
    /\ impl = "refactored"
    /\ pc[c] = "r_enqueue"
    /\ lock = "none"
    /\ request_queue' = Append(request_queue, next_id)
    /\ cur' = [cur EXCEPT ![c] = next_id]
    /\ chan' = [chan EXCEPT ![c] = ChanEmpty]
    /\ next_id' = next_id + 1
    /\ pc' = [pc EXCEPT ![c] = "bwait"]
    /\ UNCHANGED <<impl, resource_manager, taskVars, lock, envVars>>
    /\ UNCHANGED <<ws_stream, connected, retry_count, batch_processor_handle>>
    /\ UNCHANGED <<op, result, attempts, attempt, delay, call_conn>>
    /\ UNCHANGED <<pipeVars, otherVars>>

\* timeout(request_timeout_ms, response_rx.recv()) elapsed
RSendTimeout(c) ==
    /\ impl = "refactored"
    /\ pc[c] = "bwait"
    /\ chan[c] = ChanEmpty
    /\ result' = [result EXCEPT ![c] = Res("Timeout", "timeout", 0)]
    /\ pc' = [pc EXCEPT ![c] = "ret"]
    /\ UNCHANGED <<impl, resource_manager, clientVars, taskVars, lock, envVars>>
    /\ UNCHANGED <<op, attempts, attempt, delay, call_conn, cur, chan, next_id>>
    /\ UNCHANGED <<pipeVars, otherVars>>

\* ------------------------------------------------------------ the remote
RemoteToggle ==
    /\ reachable' = ~reachable
    /\ UNCHANGED <<impl, resource_manager, clientVars, taskVars, lock, callVars>>
    /\ UNCHANGED <<socks, inbound, remote_pending>>
    /\ UNCHANGED <<pipeVars, otherVars>>

\* No frame follows a Close or an error on a stream.
StreamLive ==
    /\ ws_stream # NoSock
    /\ Len(inbound) < MaxInbound
    /\ \A i \in 1..Len(inbound) : inbound[i].kind \notin {"Close", "Err"}

\* The remote answers the oldest request it has read.
RemoteReply ==
    /\ StreamLive
    /\ remote_pending # <<>>
    /\ inbound' = Append(inbound, Frame("Text", Head(remote_pending)))
    /\ remote_pending' = Tail(remote_pending)
    /\ UNCHANGED <<impl, resource_manager, clientVars, taskVars, lock, callVars>>
    /\ UNCHANGED <<socks, reachable>>
    /\ UNCHANGED <<pipeVars, otherVars>>

\* A Close frame, a transport error, or a frame that is not text (or the end
\* of the stream) arrives.
RemoteFrame(k) ==
    /\ StreamLive
    /\ inbound' = Append(inbound, Frame(k, 0))
    /\ UNCHANGED <<impl, resource_manager, clientVars, taskVars, lock, callVars>>
    /\ UNCHANGED <<socks, reachable, remote_pending>>
    /\ UNCHANGED <<pipeVars, otherVars>>

Next ==
    \/ \E c \in Callers : LConnectCall(c)
    \/ \E c \in Callers : LConnectLoop(c)
    \/ \E c \in Callers : LConnectWake(c)
    \/ \E c \in Callers : Disconnect(c)
    \/ \E c \in Callers : LSendCall(c)
    \/ \E c \in Callers : LSendRecv(c)
    \/ \E c \in Callers : LBatchedCall(c, MaxReq)
    \/ \E c \in Callers : BatchedRecv(c)
    \/ \E c \in Callers : BatchedCancel(c)
    \/ \E c \in Callers : StartBatch(c)
    \/ \E c \in Callers : StopBatch(c)
    \/ \E c \in Callers : RConnectCall(c)
    \/ \E c \in Callers : RConnectAttempt(c)
    \/ \E c \in Callers : RConnectWake(c)
    \/ \E c \in Callers : RSendCheck(c)
    \/ \E c \in Callers : RSendEnqueue(c)
    \/ \E c \in Callers : RSendTimeout(c)
    \/ \E c \in Callers : Return(c)
    \/ BatchTick
    \/ BatchDeliver
    \/ RemoteToggle
    \/ RemoteReply
    \/ \E k \in {"Close", "Err", "Other"} : RemoteFrame(k)

Spec == Init /\ [][Next]_vars

\* The batched path alone, with a long queue: the legacy client, callers that
\* enqueue and wait or give up, and the batch processor.
InitBatch == Init /\ impl = "legacy"

NextBatch ==
    \/ \E c \in Callers : LBatchedCall(c, MaxBatchReq)
    \/ \E c \in Callers : BatchedRecv(c)
    \/ \E c \in Callers : BatchedCancel(c)
    \/ \E c \in Callers : StartBatch(c)
    \/ \E c \in Callers : StopBatch(c)
    \/ \E c \in Callers : Return(c)
    \/ BatchTick
    \/ BatchDeliver

SpecBatch == InitBatch /\ [][NextBatch]_vars

\* The tokio runtime runs every task that can proceed: the batch processor's
\* interval fires, a ready channel or an elapsed timeout wakes its caller.
FairBatch ==
    /\ SpecBatch
    /\ WF_vars(BatchTick)
    /\ WF_vars(BatchDeliver)
    /\ \A c \in Callers : WF_vars(BatchedRecv(c))
    /\ \A c \in Callers : WF_vars(Return(c))

\* =============================================================== pipelines
\* The pipeline handler of src/src/mcp_server.rs and the orchestrator it
\* calls. Timeouts are in seconds, retry delays in milliseconds.

\* ------------------------------------------------------------------ bounds
MaxShort == 3         \* steps of the pipelines enumerated step by step
MaxSteps == 51        \* steps of the longest pipeline submitted

\* ------------------------------------------------------- program constants
MAX_PIPELINE_STEPS == 50      \* mcp_server.rs:252
DEFAULT_STEP_TIMEOUT == 300   \* mcp_server.rs:259
MAX_STEP_TIMEOUT == 600       \* mcp_server.rs:259
KnownTools == {"observe", "experiment", "hypothesis", "stress", "replay", "anomaly"}

\* A registry that lacks the anomaly executor.
RegisteredToolsNoAnomaly == {"observe", "experiment", "hypothesis", "stress", "replay"}

\* create_orchestrator: the executors registered by name
RegisteredTools == {"observe", "experiment", "hypothesis", "stress", "replay", "anomaly"}

\* execute_tool looks the executor up by the tool's name.
LookupTool(tool) == IF tool \in RegisteredTools THEN "executor" ELSE "UnknownTool"

\* A handler that knows the first template only.
TemplateNamesFirstOnly == {"observe_experiment_replay"}

TemplateNames == {"observe_experiment_replay", "debug_performance"}

\* step.timeout is None
NoTimeout == -1

\* step.retry_config is None
NoRetryConfig == [present |-> FALSE, max_attempts |-> 1, initial_delay |-> 0, max_delay |-> 0]
\* RetryConfig::default()
DefaultRetryConfig == [present |-> TRUE, max_attempts |-> 3, initial_delay |-> 100, max_delay |-> 30000]
\* A retry_config whose max_delay is reached by the third wait.
TightRetryConfig == [present |-> TRUE, max_attempts |-> 5, initial_delay |-> 100, max_delay |-> 250]

\* A PipelineStep; its name is its position in the pipeline. fails is the
\* number of invocations the step's executor fails before it succeeds.
Step(tool, timeout, condition, retry_config, fails) ==
    [tool |-> tool, timeout |-> timeout, condition |-> condition,
     retry_config |-> retry_config, fails |-> fails]

PlainStep == Step("observe", NoTimeout, "none", NoRetryConfig, 0)

\* The steps that pass validation.
GoodSteps ==
    { PlainStep,
      Step("anomaly", MAX_STEP_TIMEOUT, "none", NoRetryConfig, 0),
      Step("observe", NoTimeout, "none", NoRetryConfig, 1),
      Step("experiment", NoTimeout, "none", DefaultRetryConfig, 2),
      Step("experiment", NoTimeout, "none", DefaultRetryConfig, 3),
      Step("stress", NoTimeout, "none", TightRetryConfig, 4),
      Step("stress", NoTimeout, "none", TightRetryConfig, 5),
      Step("replay", NoTimeout, "prev_ok", NoRetryConfig, 0),
      Step("hypothesis", NoTimeout, "prev_failed", NoRetryConfig, 0) }

\* The steps that violate a constraint.
BadSteps ==
    { Step("observe", MAX_STEP_TIMEOUT + 1, "none", NoRetryConfig, 0),
      Step("shell", NoTimeout, "none", NoRetryConfig, 0),
      Step("shell", MAX_STEP_TIMEOUT + 1, "none", NoRetryConfig, 0) }

ShortPipelines == UNION {[1..n -> GoodSteps \cup BadSteps] : n \in 0..MaxShort}

\* A pipeline of n plain steps but for step p, which is k.
LongPipeline(n, p, k) == [i \in 1..n |-> IF i = p THEN k ELSE PlainStep]

LongPipelines ==
    {LongPipeline(n, p, k) : n \in (MAX_PIPELINE_STEPS - 1)..MaxSteps,
                             p \in {1, MAX_PIPELINE_STEPS - 1},
                             k \in BadSteps \cup {PlainStep}}

\* The template names a caller may pass.
RequestedTemplates == {"observe_experiment_replay", "debug_performance", "no_such_template"}

\* What a caller may pass to the pipeline tool.
Requests ==
    {[kind |-> "pipeline", template |-> "", steps |-> st, fail_fast |-> ff, fails |-> 0] :
        st \in ShortPipelines \cup LongPipelines, ff \in BOOLEAN}
    \cup
    {[kind |-> "template", template |-> t, steps |-> <<>>, fail_fast |-> ff, fails |-> f] :
        t \in RequestedTemplates, ff \in BOOLEAN, f \in {0, 1}}
    \cup
    {[kind |-> k, template |-> "", steps |-> <<>>, fail_fast |-> FALSE, fails |-> 0] :
        k \in {"missing", "malformed"}}

\* ---------------------------------------------------- pipeline validation
\* step.timeout.unwrap_or(Duration::from_secs(300))
TimeoutOf(st) == IF st.timeout = NoTimeout THEN DEFAULT_STEP_TIMEOUT ELSE st.timeout

\* A step count test that rejects the fiftieth step.
TooManyStepsOffByOne(n) == n >= MAX_PIPELINE_STEPS

\* pipeline.steps.len() > 50
TooManySteps(n) == n > MAX_PIPELINE_STEPS

PipeOk == PipeRes("Ok", "", 0, "", {})
ValidationError(why, step, tool) == PipeRes("Validation", why, step, tool, {})

\* The body of the loop over the steps: the timeout, then the tool name.
StepCheck(st, i) ==
    IF TimeoutOf(st) > MAX_STEP_TIMEOUT
    THEN ValidationError("timeout_too_long", i, "")
    ELSE IF st.tool \notin KnownTools
    THEN ValidationError("unknown_tool", i, st.tool)
    ELSE PipeOk

\* A validation that accepts every pipeline.
ValidateNothing(steps) == PipeOk

\* The constraints checked on a custom pipeline, in the order of the code.
ValidatePipeline(steps) ==
    IF TooManySteps(Len(steps))
    THEN ValidationError("too_complex", 0, "")
    ELSE LET bad == {i \in 1..Len(steps) : StepCheck(steps[i], i) # PipeOk}
         IN IF bad = {}
            THEN PipeOk
            ELSE LET first == CHOOSE i \in bad : \A j \in bad : i <= j
                 IN StepCheck(steps[first], first)

\* ------------------------------------------------------- the orchestrator
\* WorkflowDSL: the pre-built pipelines, every executor failing f times.
TemplatePipeline(t, f) ==
    IF t = "observe_experiment_replay"
    THEN << Step("observe", NoTimeout, "none", NoRetryConfig, f),
            Step("experiment", NoTimeout, "prev_ok", NoRetryConfig, f),
            Step("replay", NoTimeout, "prev_ok", NoRetryConfig, f) >>
    ELSE << Step("stress", NoTimeout, "none", NoRetryConfig, f),
            Step("anomaly", NoTimeout, "none", NoRetryConfig, f) >>

\* The steps handed to execute_pipeline.
PipelineSteps ==
    IF arguments.kind = "template"
    THEN TemplatePipeline(arguments.template, arguments.fails)
    ELSE arguments.steps

\* An order that runs the last step first.
ExecutionOrderReversed(steps) == [i \in 1..Len(steps) |-> Len(steps) + 1 - i]

\* The resolved order: every step depends on the step before it.
ExecutionOrder(steps) == [i \in 1..Len(steps) |-> i]

\* The step at hand.
CurStep == PipelineSteps[ExecutionOrder(PipelineSteps)[idx]]
CurName == ExecutionOrder(PipelineSteps)[idx]

\* The ToolResult appended for a step.
ToolResult(step, success, tries, slept, saw) ==
    [step |-> step, success |-> success, attempts |-> tries, waits |-> slept, saw |-> saw]

ResultNames(rs) == {rs[i].step : i \in 1..Len(rs)}
FailedNames(rs) == {rs[i].step : i \in {j \in 1..Len(rs) : ~rs[j].success}}

\* A condition that holds whatever the context.
ConditionAlwaysHolds(st, name, rs) == TRUE

\* The step's condition over the results of the context.
ConditionHolds(st, name, rs) ==
    CASE st.condition = "prev_ok" ->
            \E i \in 1..Len(rs) : rs[i].step = name - 1 /\ rs[i].success
      [] st.condition = "prev_failed" ->
            \E i \in 1..Len(rs) : rs[i].step = name - 1 /\ ~rs[i].success
      [] OTHER -> TRUE

MaxAttempts(st) == IF st.retry_config.present THEN st.retry_config.max_attempts ELSE 1

\* A step that is never retried.
CanRetryStepNever(st, n) == FALSE

\* After n failed attempts another attempt follows.
CanRetryStep(st, n) == n < MaxAttempts(st)

\* A backoff that doubles without regard to max_delay.
RetryDelayUncapped(rc, k) == rc.initial_delay * 2^(k - 1)

\* The k-th wait of the Exponential schedule: initial_delay, doubling, capped.
RetryDelay(rc, k) == Min(rc.initial_delay * 2^(k - 1), rc.max_delay)

\* A pipeline that carries on after a failed step whatever fail_fast says.
AbortsNever(ff) == FALSE

\* A run that any step failing for good aborts.
AbortsAlways(ff) == TRUE

\* A step that failed for good aborts the run.
Aborts(ff) == ff

\* An add_result that keeps an earlier result of the same name.
AddResultKeepingFirst(rs, r) ==
    IF \E i \in 1..Len(rs) : rs[i].step = r.step THEN rs ELSE Append(rs, r)

\* context.add_result: the result is stored under its name, in place of an
\* earlier result of that name
AddResult(rs, r) ==
    Append(SelectSeq(rs, LAMBDA x : x.step # r.step), r)

\* context.add_result: metadata.execution_count += 1
CountAfterAdd(n) == n + 1

\* ---------------------------------------------------------------- actions
\* A caller submits the arguments of a pipeline call.
InitPipe ==
    /\ OtherIdle
    /\ BrpInit
    /\ impl = "legacy" /\ ~resource_manager /\ ~reachable
    /\ arguments \in Requests
    /\ phase = "submitted"
    /\ idx = 0
    /\ step_attempts = 0
    /\ waits = <<>>
    /\ exec_log = <<>>
    /\ NewContext
    /\ invocations = 0
    /\ presult = NoPipeRes

Reject(err) ==
    /\ phase' = "rejected"
    /\ presult' = err
    /\ idx' = 0

Accept ==
    /\ phase' = "executing"
    /\ presult' = NoPipeRes
    /\ idx' = 1

\* handle_pipeline_execution up to the call of execute_pipeline
HandlePipelineExecution ==
    /\ phase = "submitted"
    /\ CASE arguments.kind = "template" ->
              IF arguments.template \in TemplateNames
              THEN Accept
              ELSE Reject(ValidationError("unknown_template", 0, ""))
         [] arguments.kind = "pipeline" ->
              IF ValidatePipeline(arguments.steps) = PipeOk
              THEN Accept
              ELSE Reject(ValidatePipeline(arguments.steps))
         [] arguments.kind = "malformed" ->
              Reject(ValidationError("invalid_format", 0, ""))
         [] OTHER ->
              Reject(ValidationError("missing_field", 0, ""))
    /\ UNCHANGED <<arguments, step_attempts, waits, exec_log, results, invocations>>
    /\ UNCHANGED <<execution_count, ctxVars>>
    /\ UNCHANGED <<brpVars, otherVars>>

\* The step's condition is false: the step is skipped.
StepSkip ==
    /\ phase = "executing"
    /\ idx <= Len(PipelineSteps)
    /\ step_attempts = 0
    /\ ~ConditionHolds(CurStep, CurName, results)
    /\ idx' = idx + 1
    /\ UNCHANGED <<arguments, phase, step_attempts, waits, exec_log, results, invocations, presult>>
    /\ UNCHANGED <<execution_count, ctxVars>>
    /\ UNCHANGED <<brpVars, otherVars>>

\* One invocation of the step's executor and what follows from its outcome.
StepInvoke ==
    /\ phase = "executing"
    /\ idx <= Len(PipelineSteps)
    /\ step_attempts > 0 \/ ConditionHolds(CurStep, CurName, results)
    /\ invocations' = invocations + 1
    /\ exec_log' = IF step_attempts = 0 THEN Append(exec_log, CurName) ELSE exec_log
    /\ LET n == step_attempts + 1
           success == LookupTool(CurStep.tool) = "executor" /\ n > CurStep.fails
           r == ToolResult(CurName, success, n, waits, ResultNames(results))
       IN IF success
          THEN /\ results' = AddResult(results, r)
               /\ execution_count' = CountAfterAdd(execution_count)
               /\ idx' = idx + 1
               /\ step_attempts' = 0
               /\ waits' = <<>>
               /\ UNCHANGED <<phase, presult>>
          ELSE IF CanRetryStep(CurStep, n)
          THEN /\ step_attempts' = n
               /\ phase' = "backoff"
               /\ UNCHANGED <<idx, waits, results, presult, execution_count>>
          ELSE /\ results' = AddResult(results, r)
               /\ execution_count' = CountAfterAdd(execution_count)
               /\ step_attempts' = 0
               /\ waits' = <<>>
               /\ IF Aborts(arguments.fail_fast)
                  THEN /\ phase' = "aborted"
                       /\ presult' = PipeRes("StepFailed", "fail_fast", CurName, CurStep.tool, {CurName})
                       /\ UNCHANGED idx
                  ELSE /\ idx' = idx + 1
                       /\ UNCHANGED <<phase, presult>>
    /\ UNCHANGED <<arguments, ctxVars>>
    /\ UNCHANGED <<brpVars, otherVars>>

\* The backoff sleep before the next attempt is over.
BackoffWake ==
    /\ phase = "backoff"
    /\ waits' = Append(waits, RetryDelay(CurStep.retry_config, Len(waits) + 1))
    /\ phase' = "executing"
    /\ UNCHANGED <<arguments, idx, step_attempts, exec_log, results, invocations, presult>>
    /\ UNCHANGED <<execution_count, ctxVars>>
    /\ UNCHANGED <<brpVars, otherVars>>

\* No step is left: the run is over and reports its failures together.
PipelineFinish ==
    /\ phase = "executing"
    /\ idx > Len(PipelineSteps)
    /\ phase' = "completed"
    /\ presult' = IF FailedNames(results) = {}
                  THEN PipeOk
                  ELSE PipeRes("StepFailed", "collected", 0, "", FailedNames(results))
    /\ UNCHANGED <<arguments, idx, step_attempts, waits, exec_log, results, invocations>>
    /\ UNCHANGED <<execution_count, ctxVars>>
    /\ UNCHANGED <<brpVars, otherVars>>

NextPipe ==
    \/ HandlePipelineExecution
    \/ StepSkip
    \/ StepInvoke
    \/ BackoffWake
    \/ PipelineFinish

SpecPipe == InitPipe /\ [][NextPipe]_vars

\* The handler and the orchestrator run on the runtime until they return:
\* every sleep ends and every step that can be taken is taken.
FairPipe == SpecPipe /\ WF_vars(NextPipe)

\* ============================================================ ToolContext
\* A ToolContext used through its own methods, as the tests do, and through
\* the orchestrate tool of src/src/mcp_server.rs, which makes a context of
\* its own for every call.

MaxAdds == 3          \* add_result calls on one context
MaxCalls == 2         \* executor runs through the orchestrate tool in one run

\* The tool names a caller may pass; "" is a call without the field.
RequestedTools == {"observe", "anomaly", "shell", ""}
VarValues == {"a", "b"}
\* The names results are added under.
ContextNames == {"observe", "anomaly"}

InitContext ==
    /\ BridgeIdle
    /\ OtherIdle

\* context.add_result(name, result)
CtxAddResult(name, ok) ==
    /\ execution_count < MaxAdds
    /\ results' = AddResult(results, ToolResult(name, ok, 1, <<>>, {}))
    /\ execution_count' = CountAfterAdd(execution_count)
    /\ last_call' = Call("add_result", name, ok)
    /\ UNCHANGED <<arguments, phase, idx, step_attempts, waits, exec_log, invocations, presult>>
    /\ UNCHANGED variables
    /\ UNCHANGED <<brpVars, otherVars>>

\* context.set_variable(key, value)
CtxSetVariable(k, v) ==
    /\ variables' = [variables EXCEPT ![k] = v]
    /\ last_call' = Call("set_variable", k, FALSE)
    /\ UNCHANGED <<arguments, phase, idx, step_attempts, waits, exec_log, invocations, presult>>
    /\ UNCHANGED <<results, execution_count>>
    /\ UNCHANGED <<brpVars, otherVars>>

\* handle_orchestration: a new context, then execute_tool, which looks the
\* tool up, runs its executor and adds the result to the context.
HandleOrchestration(tool, ok) ==
    /\ invocations < MaxCalls
    /\ variables' = NoVariables
    /\ last_call' = Call("orchestrate", tool, ok)
    /\ IF tool = ""
       THEN /\ presult' = ValidationError("missing_tool", 0, "")
            /\ results' = <<>>
            /\ execution_count' = 0
            /\ UNCHANGED invocations
       ELSE IF LookupTool(tool) = "UnknownTool"
       THEN /\ presult' = PipeRes("UnknownTool", "", 0, tool, {})
            /\ results' = <<>>
            /\ execution_count' = 0
            /\ UNCHANGED invocations
       ELSE /\ presult' = IF ok THEN PipeOk ELSE PipeRes("ToolFailed", "", 0, tool, {})
            /\ results' = AddResult(<<>>, ToolResult(tool, ok, 1, <<>>, {}))
            /\ execution_count' = CountAfterAdd(0)
            /\ invocations' = invocations + 1
    /\ UNCHANGED <<arguments, phase, idx, step_attempts, waits, exec_log>>
    /\ UNCHANGED <<brpVars, otherVars>>

NextContext ==
    \/ \E name \in ContextNames, ok \in BOOLEAN : CtxAddResult(name, ok)
    \/ \E k \in VarKeys, v \in VarValues : CtxSetVariable(k, v)
    \/ \E tool \in RequestedTools, ok \in BOOLEAN : HandleOrchestration(tool, ok)

SpecContext == InitContext /\ [][NextContext]_vars

\* ========================================================= DependencyGraph
\* DependencyGraph of the orchestrator: add_dependency records an edge
\* <<dependent, dependency>>, get_execution_order sorts a subset of the names.
MaxEdges == 3
Nodes == {"a", "b", "c"}

RangeOf(q) == {q[i] : i \in 1..Len(q)}

\* The subsets a caller asks an order for: each name at most once.
Subsets ==
    {q \in UNION {[1..n -> Nodes] : n \in 0..Cardinality(Nodes)} :
        \A i, j \in 1..Len(q) : i # j => q[i] # q[j]}

\* The recorded dependencies of a name.
DependenciesOf(edges, n) == {e[2] : e \in {x \in edges : x[1] = n}}

\* A name that is taken although a dependency of it is still to be placed.
ReadyAlways(edges, remaining, n) == TRUE

\* A name can be placed when none of its dependencies is still to be placed.
Ready(edges, remaining, n) == DependenciesOf(edges, n) \cap remaining = {}

OrderOk(order) == [kind |-> "Ok", order |-> order]

\* A sort that stops at a cycle and returns what it has placed.
StuckTruncates(placed) == OrderOk(placed)

\* No name can be placed and some remain: the subset has a cycle.
Stuck(placed) == [kind |-> "CircularDependency", order |-> <<>>]

RECURSIVE Place(_, _, _)
Place(edges, todo, placed) ==
    IF todo = <<>> THEN OrderOk(placed)
    ELSE LET ready == {i \in 1..Len(todo) : Ready(edges, RangeOf(todo), todo[i])}
         IN  IF ready = {} THEN Stuck(placed)
             ELSE LET i == CHOOSE k \in ready : \A m \in ready : k <= m
                  IN  Place(edges,
                            SubSeq(todo, 1, i - 1) \o SubSeq(todo, i + 1, Len(todo)),
                            Append(placed, todo[i]))

\* get_execution_order(subset): the names in input order, each as soon as its
\* dependencies are placed
get_execution_order(edges, subset) == Place(edges, subset, <<>>)

\* DependencyGraph::new(), and no order asked for yet
InitGraph ==
    /\ BridgeIdle
    /\ graph = {}
    /\ fn_args = [edges |-> {}, subset |-> <<>>]
    /\ fn_result = NoReturn
    /\ IdIdle /\ RlIdle /\ AuthIdle /\ TailIdle

graphFrame == <<brpVars, pipeVars, idVars, rlVars, authVars, tailVars>>

\* graph.add_dependency(dependent, dependency)
AddDependency(dependent, dependency) ==
    /\ Cardinality(graph \cup {<<dependent, dependency>>}) <= MaxEdges
    /\ graph' = graph \cup {<<dependent, dependency>>}
    /\ UNCHANGED fnVars
    /\ UNCHANGED graphFrame

\* graph.get_execution_order(subset)
GetExecutionOrder(subset) ==
    /\ fn_args' = [edges |-> graph, subset |-> subset]
    /\ fn_result' = get_execution_order(graph, subset)
    /\ UNCHANGED graph
    /\ UNCHANGED graphFrame

NextGraph ==
    \/ \E dependent \in Nodes, dependency \in Nodes : AddDependency(dependent, dependency)
    \/ \E subset \in Subsets : GetExecutionOrder(subset)

SpecGraph == InitGraph /\ [][NextGraph]_vars

\* ============================================================= ExecutionId
MaxMints == 7

\* A source that hands out the same value again.
NextAfterMintSame(n) == n

\* The source moves on with every value it hands out.
NextAfterMint(n) == n + 1

InitIds ==
    /\ BridgeIdle
    /\ FnIdle /\ graph = {}
    /\ IdIdle /\ RlIdle /\ AuthIdle /\ TailIdle

\* ExecutionId::new() by caller c: one indivisible step on the source
NewExecutionId(c) ==
    /\ Len(minted) < MaxMints
    /\ minted' = Append(minted, [by |-> c, id |-> next_execution_id])
    /\ next_execution_id' = NextAfterMint(next_execution_id)
    /\ UNCHANGED <<brpVars, pipeVars, fnVars, graph, rlVars, authVars, tailVars>>

NextIds == \E c \in Callers : NewExecutionId(c)

SpecIds == InitIds /\ [][NextIds]_vars

\* ============================================================= RateLimiter
MaxChecks == 6
MaxNow == 80
TickSecs == 20
MINUTE == 60
HOUR == 3600

\* The configurations of the tests: test_basic_rate_limiting and
\* test_operation_specific_limits. operation_limits maps an operation to its
\* limit, 0 for an operation without one.
BasicConfig ==
    [requests_per_minute |-> 5, requests_per_hour |-> 20, burst_size |-> 3,
     enable_per_operation_limits |-> FALSE,
     operation_limits |-> [o \in Operations |-> 0]]
OperationConfig ==
    [requests_per_minute |-> 10, requests_per_hour |-> 50, burst_size |-> 5,
     enable_per_operation_limits |-> TRUE,
     operation_limits |-> [o \in Operations |-> IF o = "stress_test" THEN 2 ELSE 0]]
RateLimitConfigs == {BasicConfig, OperationConfig}

\* RateLimitBucket::new(config) at time t
NewBucket(cfg, t) ==
    [requests_this_minute |-> 0, requests_this_hour |-> 0,
     minute_reset_time |-> t + MINUTE, hour_reset_time |-> t + HOUR,
     burst_tokens |-> cfg.burst_size, last_refill |-> t]

\* (time_since_refill.as_secs_f64() * burst_size / 60.0) as u32
TokensToAdd(b, cfg, t) == ((t - b.last_refill) * cfg.burst_size) \div MINUTE

\* RateLimitBucket::try_consume up to the check of the limits: the resets of
\* the two counters and the refill of the burst tokens
Refreshed(b, cfg, t) ==
    LET b1 == IF t >= b.minute_reset_time
              THEN [b EXCEPT !.requests_this_minute = 0, !.minute_reset_time = t + MINUTE]
              ELSE b
        b2 == IF t >= b1.hour_reset_time
              THEN [b1 EXCEPT !.requests_this_hour = 0, !.hour_reset_time = t + HOUR]
              ELSE b1
    IN  IF TokensToAdd(b2, cfg, t) > 0
        THEN [b2 EXCEPT !.burst_tokens = Min(@ + TokensToAdd(b2, cfg, t), cfg.burst_size),
                        !.last_refill = t]
        ELSE b2

\* minute_ok && hour_ok && burst_ok
WithinLimits(b, cfg) ==
    /\ b.requests_this_minute < cfg.requests_per_minute
    /\ b.requests_this_hour < cfg.requests_per_hour
    /\ b.burst_tokens > 0

\* RateLimitBucket::try_consume: the bucket after the call and what it returned
try_consume(b, cfg, t) ==
    LET r == Refreshed(b, cfg, t)
    IN  IF WithinLimits(r, cfg)
        THEN [bucket |-> [r EXCEPT !.requests_this_minute = @ + 1,
                                   !.requests_this_hour = @ + 1,
                                   !.burst_tokens = @ - 1],
              allowed |-> TRUE]
        ELSE [bucket |-> r, allowed |-> FALSE]

\* OperationBucket::new() at time t
NewOperationBucket(t) == [requests_this_minute |-> 0, minute_reset_time |-> t + MINUTE]

\* OperationBucket::try_consume(limit)
op_try_consume(b, limit, t) ==
    LET r == IF t >= b.minute_reset_time
             THEN [b EXCEPT !.requests_this_minute = 0, !.minute_reset_time = t + MINUTE]
             ELSE b
    IN  IF r.requests_this_minute < limit
        THEN [bucket |-> [r EXCEPT !.requests_this_minute = @ + 1], allowed |-> TRUE]
        ELSE [bucket |-> r, allowed |-> FALSE]

Decision(kind, u, operation, allowed) ==
    [kind |-> kind, user |-> u, operation |-> operation, at |-> now, allowed |-> allowed]

InitLimiter ==
    /\ BridgeIdle
    /\ FnIdle /\ graph = {} /\ IdIdle /\ AuthIdle /\ TailIdle
    /\ now = 0
    /\ config \in RateLimitConfigs
    /\ NewLimiter

rlFrame == <<brpVars, pipeVars, fnVars, graph, idVars, authVars, tailVars>>

\* limiter.check_limit(user_id, operation)
CheckLimit(u, operation) ==
    /\ Len(decisions) < MaxChecks
    /\ LET bucket == IF user_buckets[u] = NoBucket THEN NewBucket(config, now)
                     ELSE user_buckets[u]
           user == try_consume(bucket, config, now)
           limited == /\ config.enable_per_operation_limits
                      /\ config.operation_limits[operation] > 0
           op_bucket == IF operation_buckets[<<u, operation>>] = NoBucket
                        THEN NewOperationBucket(now)
                        ELSE operation_buckets[<<u, operation>>]
           oper == op_try_consume(op_bucket, config.operation_limits[operation], now)
       IN  /\ user_buckets' = [user_buckets EXCEPT ![u] = user.bucket]
           /\ IF ~user.allowed
              THEN /\ violation_count' = violation_count + 1
                   /\ decisions' = Append(decisions, Decision("check", u, operation, FALSE))
                   /\ UNCHANGED operation_buckets
              ELSE IF limited
              THEN /\ operation_buckets' =
                          [operation_buckets EXCEPT ![<<u, operation>>] = oper.bucket]
                   /\ violation_count' = violation_count + (IF oper.allowed THEN 0 ELSE 1)
                   /\ decisions' =
                          Append(decisions, Decision("check", u, operation, oper.allowed))
              ELSE /\ decisions' = Append(decisions, Decision("check", u, operation, TRUE))
                   /\ UNCHANGED <<operation_buckets, violation_count>>
    /\ UNCHANGED <<now, config>>
    /\ UNCHANGED rlFrame

\* limiter.reset_user_limits(user_id)
ResetUserLimits(u) ==
    /\ Len(decisions) < MaxChecks
    /\ user_buckets' = [user_buckets EXCEPT ![u] = NoBucket]
    /\ operation_buckets' =
           [k \in Users \X Operations |-> IF k[1] = u THEN NoBucket ELSE operation_buckets[k]]
    /\ decisions' = Append(decisions, Decision("reset", u, "", TRUE))
    /\ UNCHANGED <<now, config, violation_count>>
    /\ UNCHANGED rlFrame

\* Time passes.
RlTick ==
    /\ now + TickSecs <= MaxNow
    /\ now' = now + TickSecs
    /\ UNCHANGED <<config, user_buckets, operation_buckets, violation_count, decisions>>
    /\ UNCHANGED rlFrame

NextLimiter ==
    \/ \E u \in Users, operation \in Operations : CheckLimit(u, operation)
    \/ \E u \in Users : ResetUserLimits(u)
    \/ RlTick

SpecLimiter == InitLimiter /\ [][NextLimiter]_vars

\* ============================================================= RbacService
Roles == {"Viewer", "Developer", "Admin"}

ViewerPermissions ==
    {"ObserveEntities", "ObserveComponents", "ObserveSystems", "ObserveResources"}
DeveloperPermissions ==
    ViewerPermissions \cup
    {"ModifyComponents", "RunExperiments", "StressTest", "PauseGame", "StepFrame",
     "ModifyTime", "CreateHypothesis", "ModifyWorldState", "InjectEvents"}
AdminPermissions ==
    DeveloperPermissions \cup
    {"ManageUsers", "ViewAuditLogs", "ModifySecuritySettings", "AccessSystemMetrics"}

\* setup_default_permissions: role_permissions
role_permissions(role) ==
    CASE role = "Viewer" -> ViewerPermissions
      [] role = "Developer" -> DeveloperPermissions
      [] role = "Admin" -> AdminPermissions

\* setup_resource_permissions: resource_permissions, empty for a resource
\* that has no entry
resource_permissions(resource) ==
    CASE resource = "entities" -> {"ObserveEntities", "ModifyComponents"}
      [] resource = "systems" -> {"ObserveSystems", "PauseGame", "StepFrame"}
      [] resource = "performance" -> {"ObserveSystems", "StressTest", "AccessSystemMetrics"}
      [] resource = "behavior" -> {"CreateHypothesis", "ModifyWorldState", "InjectEvents"}
      [] OTHER -> {}

map_operation_to_permission(operation) ==
    CASE operation = "observe" -> "ObserveEntities"
      [] operation = "experiment" -> "RunExperiments"
      [] operation = "stress_test" -> "StressTest"
      [] operation = "hypothesis" -> "CreateHypothesis"
      [] operation = "modify_component" -> "ModifyComponents"
      [] operation = "pause_game" -> "PauseGame"
      [] operation = "step_frame" -> "StepFrame"
      [] operation = "modify_time" -> "ModifyTime"
      [] operation = "modify_world" -> "ModifyWorldState"
      [] operation = "inject_event" -> "InjectEvents"
      [] operation = "manage_users" -> "ManageUsers"
      [] operation = "view_audit" -> "ViewAuditLogs"
      [] operation = "modify_security" -> "ModifySecuritySettings"
      [] operation = "system_metrics" -> "AccessSystemMetrics"
      [] OTHER -> "ObserveEntities"

\* RbacService::check_permission(context, operation, resource)
check_permission(role, operation, resource) ==
    LET required_permission == map_operation_to_permission(operation)
        has_role_permission == required_permission \in role_permissions(role)
        has_resource_permission == required_permission \in resource_permissions(resource)
    IN  has_role_permission /\ (resource_permissions(resource) = {} \/ has_resource_permission)

\* The operations and resources a caller may name.
RbacOperations ==
    {"observe", "experiment", "stress_test", "hypothesis", "modify_component", "pause_game",
     "step_frame", "modify_time", "modify_world", "inject_event", "manage_users", "view_audit",
     "modify_security", "system_metrics", "no_such_operation"}
RbacResources == {"entities", "systems", "performance", "behavior", "admin", "logs"}

InitRbac ==
    /\ BridgeIdle
    /\ graph = {} /\ IdIdle /\ RlIdle /\ AuthIdle /\ TailIdle
    /\ fn_args \in [role : Roles, operation : RbacOperations, resource : RbacResources]
    /\ fn_result = NoReturn

\* rbac.check_permission(&context, operation, resource) returns
CheckPermission ==
    /\ fn_result = NoReturn
    /\ fn_result' = [kind |-> "Ok",
                     authorized |-> check_permission(fn_args.role, fn_args.operation,
                                                     fn_args.resource)]
    /\ UNCHANGED <<fn_args, graph>>
    /\ UNCHANGED <<brpVars, pipeVars, idVars, rlVars, authVars, tailVars>>

NextRbac == CheckPermission

SpecRbac == InitRbac /\ [][NextRbac]_vars

\* ===================================================== tokens and sessions
\* JwtService (security/auth.rs) and SecurityManager (security.rs). The clock
\* counts hours; the leeway the decoder grants an expired token (30 s in
\* SecurityManager, the decoder's default in JwtService) is less than an hour,
\* so a token still decodes in the hour it expires and no longer after it.
MaxHours == 32
TickHours == 8
JWT_EXPIRY_HOURS == 24
SESSION_TIMEOUT_HOURS == 8

\* claims.exp
Exp(t) == issued[t] + JWT_EXPIRY_HOURS

\* decode::<Claims>(token, key, validation) is Ok
Decodes(t) == now <= Exp(t)

\* The order of the checks of validate_token.
FirstCheck == IF service = "JwtService" THEN "revoked" ELSE "decode"
AfterRevoked == IF service = "JwtService" THEN "decode" ELSE "session"
AfterDecode == IF service = "JwtService" THEN "session" ELSE "revoked"

\* A revocation that leaves the session active.
SessionsAfterRevokeKept(sessions, t) == sessions

\* revoke_token: sessions.remove(&claims.session_id)
SessionsAfterRevoke(sessions, t) == [sessions EXCEPT ![t] = NoSession]

InitAuth ==
    /\ BridgeIdle
    /\ FnIdle /\ graph = {} /\ IdIdle /\ TailIdle
    /\ now = 0 /\ config = NoConfig /\ NewLimiter
    /\ service \in {"JwtService", "SecurityManager"}
    /\ NewService

authFrame == <<brpVars, pipeVars, fnVars, graph, idVars, limiterVars, tailVars>>

\* generate_token / authenticate: a token with a new session id, the session
\* made active
GenerateToken(t) ==
    /\ issued[t] = NotIssued
    /\ \A u \in Tokens : u < t => issued[u] # NotIssued
    /\ issued' = [issued EXCEPT ![t] = now]
    /\ active_sessions' = [active_sessions EXCEPT ![t] = now]
    /\ UNCHANGED <<now, service, revoked_tokens, auth_pc, auth_op, auth_result, revoked_ok>>
    /\ UNCHANGED authFrame

\* Caller c calls validate_token(t) or revoke_token(t); revoke_token begins
\* with validate_token.
AuthCall(c, what, t) ==
    /\ auth_pc[c] = "idle"
    /\ issued[t] # NotIssued
    /\ auth_op' = [auth_op EXCEPT ![c] =
                      [op |-> what, token |-> t, after_revoke |-> t \in revoked_ok]]
    /\ auth_result' = [auth_result EXCEPT ![c] = NoAuthRes]
    /\ auth_pc' = [auth_pc EXCEPT ![c] = FirstCheck]
    /\ UNCHANGED <<now, service, issued, revoked_tokens, active_sessions, revoked_ok>>
    /\ UNCHANGED authFrame

\* The call of c returns r.
AuthReturn(c, r) ==
    /\ auth_result' = [auth_result EXCEPT ![c] = r]
    /\ auth_pc' = [auth_pc EXCEPT ![c] = "idle"]

\* The call of c goes on to its next step.
AuthGoto(c, next) ==
    /\ auth_pc' = [auth_pc EXCEPT ![c] = next]
    /\ UNCHANGED auth_result

\* validate_token: the token is on the revocation list
CheckRevoked(c) ==
    /\ auth_pc[c] = "revoked"
    /\ IF revoked_tokens[auth_op[c].token] # NotRevoked
       THEN AuthReturn(c, AuthRes("Err", "Token has been revoked"))
       ELSE AuthGoto(c, AfterRevoked)
    /\ UNCHANGED <<now, service, issued, revoked_tokens, active_sessions, auth_op, revoked_ok>>
    /\ UNCHANGED authFrame

\* validate_token: decode the token, which checks its expiry
Decode(c) ==
    /\ auth_pc[c] = "decode"
    /\ IF Decodes(auth_op[c].token)
       THEN AuthGoto(c, AfterDecode)
       ELSE AuthReturn(c, AuthRes("Err", "Invalid token"))
    /\ UNCHANGED <<now, service, issued, revoked_tokens, active_sessions, auth_op, revoked_ok>>
    /\ UNCHANGED authFrame

\* validate_token: the session of the token is active. JwtService reads the
\* set. SecurityManager holds the Ref that DashMap::get returned while it
\* calls DashMap::insert on the same key, which waits for that Ref to be
\* dropped: the call never returns.
CheckSession(c) ==
    /\ auth_pc[c] = "session"
    /\ IF active_sessions[auth_op[c].token] = NoSession
       THEN AuthReturn(c, AuthRes("Err", "Session not active"))
       ELSE IF service = "SecurityManager"
       THEN AuthGoto(c, "blocked")
       ELSE IF auth_op[c].op = "validate"
       THEN AuthReturn(c, AuthRes("Ok", ""))
       ELSE AuthGoto(c, "insert")
    /\ UNCHANGED <<now, service, issued, revoked_tokens, active_sessions, auth_op, revoked_ok>>
    /\ UNCHANGED authFrame

\* revoke_token: revoked.insert(token)
InsertRevoked(c) ==
    /\ auth_pc[c] = "insert"
    /\ revoked_tokens' = [revoked_tokens EXCEPT ![auth_op[c].token] = now]
    /\ AuthGoto(c, "remove")
    /\ UNCHANGED <<now, service, issued, active_sessions, auth_op, revoked_ok>>
    /\ UNCHANGED authFrame

\* revoke_token: sessions.remove(session_id), and the call returns Ok
RemoveSession(c) ==
    /\ auth_pc[c] = "remove"
    /\ active_sessions' = SessionsAfterRevoke(active_sessions, auth_op[c].token)
    /\ revoked_ok' = revoked_ok \cup {auth_op[c].token}
    /\ AuthReturn(c, AuthRes("Ok", ""))
    /\ UNCHANGED <<now, service, issued, revoked_tokens, auth_op>>
    /\ UNCHANGED authFrame

\* JwtService::cleanup_expired_tokens: a revoked token leaves the list when
\* it has expired (or no longer decodes). SecurityManager::cleanup: a session
\* idle for more than the session timeout is removed, a revoked token stays
\* on the list for twice the expiry time.
Cleanup ==
    /\ IF service = "JwtService"
       THEN /\ revoked_tokens' =
                  [t \in Tokens |-> IF Exp(t) <= now \/ ~Decodes(t)
                                    THEN NotRevoked ELSE revoked_tokens[t]]
            /\ UNCHANGED active_sessions
       ELSE /\ active_sessions' =
                  [t \in Tokens |-> IF now - active_sessions[t] > SESSION_TIMEOUT_HOURS
                                    THEN NoSession ELSE active_sessions[t]]
            /\ revoked_tokens' =
                  [t \in Tokens |-> IF revoked_tokens[t] > now - 2 * JWT_EXPIRY_HOURS
                                    THEN revoked_tokens[t] ELSE NotRevoked]
    /\ UNCHANGED <<now, service, issued, auth_pc, auth_op, auth_result, revoked_ok>>
    /\ UNCHANGED authFrame

\* Time passes.
AuthTick ==
    /\ now + TickHours <= MaxHours
    /\ now' = now + TickHours
    /\ UNCHANGED authVars
    /\ UNCHANGED authFrame

NextAuth ==
    \/ \E t \in Tokens : GenerateToken(t)
    \/ \E c \in Callers, what \in {"validate", "revoke"}, t \in Tokens : AuthCall(c, what, t)
    \/ \E c \in Callers : CheckRevoked(c)
    \/ \E c \in Callers : Decode(c)
    \/ \E c \in Callers : CheckSession(c)
    \/ \E c \in Callers : InsertRevoked(c)
    \/ \E c \in Callers : RemoveSession(c)
    \/ Cleanup
    \/ AuthTick

SpecAuth == InitAuth /\ [][NextAuth]_vars

\* ========================================================== LazyComponents
\* src/src/lazy_init.rs: every component sits in a OnceCell and is built by
\* its getter under init_mutex, a tokio Mutex, which a task that holds it
\* cannot take a second time. The tasks call the getters concurrently; a
\* getter of a component with dependencies calls their getters.

MaxGets == 3          \* getter calls the tasks make in one run

\* The getters a getter calls before it constructs its component, in order.
Deps(k) ==
    CASE k = "entity_processor" -> <<"entity_inspector">>
      [] k = "profiler_processor" -> <<"system_profiler">>
      [] k = "debug_command_router" -> <<"entity_processor", "profiler_processor">>
      [] OTHER -> <<>>

\* A getter call that found the cell empty and goes on to the mutex.
GetterFrame(k) ==
    [comp |-> k, pc |-> "lock", dep |-> 1, holds |-> FALSE, inst |-> NoInstance]

TopFrame(t) == lz_stack[t][Len(lz_stack[t])]
WithTop(t, f) == [lz_stack EXCEPT ![t] = [@ EXCEPT ![Len(@)] = f]]
Returned(t, k, inst, slow) == [task |-> t, comp |-> k, inst |-> inst, slow |-> slow]

\* A getter that does not look at the cell again once it holds the mutex.
RecheckSkipped(k) == FALSE

\* The double check after the mutex was acquired: the cell is set by now.
Recheck(k) == cells[k] # NoInstance

InitLazy ==
    /\ BridgeIdle
    /\ FnIdle /\ graph = {} /\ IdIdle /\ RlIdle /\ AuthIdle /\ DlqIdle
    /\ LazyIdle

lazyFrame == <<brpVars, pipeVars, fnVars, graph, idVars, rlVars, authVars, dlqVars>>

\* A task calls a getter: the cell is set and its instance is returned at
\* once, or the call goes on to init_mutex.lock().
GetComponent(t, k) ==
    /\ lz_stack[t] = <<>>
    /\ lz_calls < MaxGets
    /\ lz_calls' = lz_calls + 1
    /\ IF cells[k] # NoInstance
       THEN /\ lz_log' = lz_log \cup {Returned(t, k, cells[k], FALSE)}
            /\ UNCHANGED lz_stack
       ELSE /\ lz_stack' = [lz_stack EXCEPT ![t] = Append(@, GetterFrame(k))]
            /\ UNCHANGED lz_log
    /\ UNCHANGED <<cells, constructed, init_mutex>>
    /\ UNCHANGED lazyFrame

\* init_mutex.lock() is granted, and the cell is looked at again.
LockInitMutex(t) ==
    /\ lz_stack[t] # <<>>
    /\ TopFrame(t).pc = "lock"
    /\ init_mutex = "none"
    /\ init_mutex' = t
    /\ lz_stack' = WithTop(t,
          IF Recheck(TopFrame(t).comp)
          THEN [TopFrame(t) EXCEPT !.pc = "ret", !.holds = TRUE,
                                   !.inst = cells[TopFrame(t).comp]]
          ELSE [TopFrame(t) EXCEPT !.pc = "deps", !.holds = TRUE])
    /\ UNCHANGED <<cells, constructed, lz_log, lz_calls>>
    /\ UNCHANGED lazyFrame

\* The getter, holding the mutex, calls the getter of its next dependency.
GetDependency(t) ==
    /\ lz_stack[t] # <<>>
    /\ TopFrame(t).pc = "deps"
    /\ TopFrame(t).dep <= Len(Deps(TopFrame(t).comp))
    /\ LET d == Deps(TopFrame(t).comp)[TopFrame(t).dep]
       IN IF cells[d] # NoInstance
          THEN /\ lz_stack' = WithTop(t, [TopFrame(t) EXCEPT !.dep = @ + 1])
               /\ lz_log' = lz_log \cup {Returned(t, d, cells[d], FALSE)}
          ELSE /\ lz_stack' = [lz_stack EXCEPT ![t] = Append(@, GetterFrame(d))]
               /\ UNCHANGED lz_log
    /\ UNCHANGED <<cells, constructed, init_mutex, lz_calls>>
    /\ UNCHANGED lazyFrame

\* Arc::new(X::new(..)) and cell.set(..), which fails on a cell that is set;
\* the getter returns the instance it built.
Construct(t) ==
    /\ lz_stack[t] # <<>>
    /\ TopFrame(t).pc = "deps"
    /\ TopFrame(t).dep > Len(Deps(TopFrame(t).comp))
    /\ LET k == TopFrame(t).comp
           new == constructed[k] + 1
       IN /\ constructed' = [constructed EXCEPT ![k] = new]
          /\ cells' = [cells EXCEPT ![k] = IF @ = NoInstance THEN new ELSE @]
          /\ lz_stack' = WithTop(t, [TopFrame(t) EXCEPT !.pc = "ret", !.inst = new])
    /\ UNCHANGED <<init_mutex, lz_log, lz_calls>>
    /\ UNCHANGED lazyFrame

\* The getter returns: its guard is dropped, its caller goes on.
GetterReturn(t) ==
    /\ lz_stack[t] # <<>>
    /\ TopFrame(t).pc = "ret"
    /\ init_mutex' = IF TopFrame(t).holds THEN "none" ELSE init_mutex
    /\ lz_log' = lz_log \cup {Returned(t, TopFrame(t).comp, TopFrame(t).inst, TRUE)}
    /\ LET rest == SubSeq(lz_stack[t], 1, Len(lz_stack[t]) - 1)
       IN lz_stack' = [lz_stack EXCEPT ![t] =
             IF rest = <<>>
             THEN rest
             ELSE [rest EXCEPT ![Len(rest)] = [@ EXCEPT !.dep = @ + 1]]]
    /\ UNCHANGED <<cells, constructed, lz_calls>>
    /\ UNCHANGED lazyFrame

NextLazy ==
    \/ \E t \in Callers, k \in Components : GetComponent(t, k)
    \/ \E t \in Callers : LockInitMutex(t)
    \/ \E t \in Callers : GetDependency(t)
    \/ \E t \in Callers : Construct(t)
    \/ \E t \in Callers : GetterReturn(t)

SpecLazy == InitLazy /\ [][NextLazy]_vars

\* ========================================================= DeadLetterQueue
\* src/src/dead_letter_queue.rs: a VecDeque behind a tokio RwLock. Callers
\* add and remove failed operations; the cleanup task purges the expired
\* ones. add_failed_operation holds the write lock from its first line to its
\* return.

MaxSize == 2          \* the largest DeadLetterConfig.max_size tried
MaxDlqOps == 4        \* FailedOperation values created in one run
MaxDlqNow == 2        \* how far the clock of the queue runs, in seconds

\* The configurations tried; persistence_path stands for its being Some.
DeadLetterConfigs ==
    {[max_size |-> m, retention_period_secs |-> 1, persist_to_disk |-> p,
      persistence_path |-> f] : m \in 0..MaxSize, p \in BOOLEAN, f \in BOOLEAN}

\* FailedOperation::new: a fresh id, stamped with the time of its creation
FailedOperation(id, ts) == [id |-> id, failed_timestamp |-> ts]

\* A loop test that lets the queue grow to max_size + 1.
QueueFullAbove(len, max_size) == len > max_size

\* queue.len() >= self.config.max_size
QueueFull(len, max_size) == len >= max_size

\* A queue that drops its newest entry to make room.
PopBack(q) == IF q = <<>> THEN q ELSE SubSeq(q, 1, Len(q) - 1)

\* queue.pop_front(): None on an empty queue, which is left as it is
PopFront(q) == IF q = <<>> THEN q ELSE Tail(q)

\* now.saturating_sub(config.retention_period_secs)
Cutoff(t, retention) == IF t > retention THEN t - retention ELSE 0

\* queue_guard.retain(|op| op.failed_timestamp > cutoff)
Retained(q, cutoff) ==
    LET Fresh(o) == o.failed_timestamp > cutoff
    IN SelectSeq(q, Fresh)

\* queue.remove(pos) of the first entry with the id, if there is one
Removed(q, id) ==
    LET Other(o) == o.id # id
    IN SelectSeq(q, Other)

InitDlq ==
    /\ BridgeIdle
    /\ FnIdle /\ graph = {} /\ IdIdle /\ RlIdle /\ AuthIdle /\ LazyIdle
    /\ dlq_config \in DeadLetterConfigs
    /\ NewQueue

dlqFrame == <<brpVars, pipeVars, fnVars, graph, idVars, rlVars, authVars, lazyVars>>

\* add_failed_operation is called and is granted the write lock.
AddFailedOperation(c) ==
    /\ dlq_pc[c] = "idle"
    /\ dlq_lock = "none"
    /\ dlq_next_id <= MaxDlqOps
    /\ dlq_lock' = c
    /\ dlq_op' = [dlq_op EXCEPT ![c] = FailedOperation(dlq_next_id, dlq_now)]
    /\ dlq_next_id' = dlq_next_id + 1
    /\ dlq_before' = [dlq_before EXCEPT ![c] = dlq_queue]
    /\ dlq_pc' = [dlq_pc EXCEPT ![c] = "make_room"]
    /\ UNCHANGED <<dlq_config, dlq_queue, dlq_now, dlq_spin>>
    /\ UNCHANGED dlqFrame

\* One test of the while loop, and its body when the test holds.
MakeRoom(c) ==
    /\ dlq_pc[c] = "make_room"
    /\ IF QueueFull(Len(dlq_queue), dlq_config.max_size)
       THEN /\ dlq_queue' = PopFront(dlq_queue)
            /\ dlq_spin' = ~dlq_spin
            /\ UNCHANGED dlq_pc
       ELSE /\ dlq_pc' = [dlq_pc EXCEPT ![c] = "push"]
            /\ UNCHANGED <<dlq_queue, dlq_spin>>
    /\ UNCHANGED <<dlq_config, dlq_lock, dlq_op, dlq_before, dlq_now, dlq_next_id>>
    /\ UNCHANGED dlqFrame

\* queue.push_back(failed_operation)
PushBack(c) ==
    /\ dlq_pc[c] = "push"
    /\ dlq_queue' = Append(dlq_queue, dlq_op[c])
    /\ dlq_pc' = [dlq_pc EXCEPT ![c] =
                    IF dlq_config.persist_to_disk THEN "persist" ELSE "ret"]
    /\ UNCHANGED <<dlq_config, dlq_lock, dlq_op, dlq_before, dlq_now, dlq_next_id, dlq_spin>>
    /\ UNCHANGED dlqFrame

\* persist_to_disk: with a path it reads the queue under the read lock, which
\* is granted only while nobody holds the write lock.
PersistToDisk(c) ==
    /\ dlq_pc[c] = "persist"
    /\ dlq_config.persistence_path => dlq_lock = "none"
    /\ dlq_pc' = [dlq_pc EXCEPT ![c] = "ret"]
    /\ UNCHANGED <<dlq_config, dlq_queue, dlq_lock, dlq_op, dlq_before, dlq_now, dlq_next_id,
                   dlq_spin>>
    /\ UNCHANGED dlqFrame

\* Ok(()) is returned and the write guard dropped.
AddReturn(c) ==
    /\ dlq_pc[c] = "ret"
    /\ dlq_lock' = "none"
    /\ dlq_pc' = [dlq_pc EXCEPT ![c] = "idle"]
    /\ dlq_op' = [dlq_op EXCEPT ![c] = NoFailedOperation]
    /\ dlq_before' = [dlq_before EXCEPT ![c] = <<>>]
    /\ UNCHANGED <<dlq_config, dlq_queue, dlq_now, dlq_next_id, dlq_spin>>
    /\ UNCHANGED dlqFrame

\* remove_failed_operation, under the write lock from start to end
RemoveFailedOperation(id) ==
    /\ dlq_lock = "none"
    /\ dlq_queue' = Removed(dlq_queue, id)
    /\ UNCHANGED <<dlq_config, dlq_lock, dlq_pc, dlq_op, dlq_before, dlq_now, dlq_next_id,
                   dlq_spin>>
    /\ UNCHANGED dlqFrame

\* The cleanup task's tick: cleanup_expired, under the write lock
CleanupExpired ==
    /\ dlq_lock = "none"
    /\ dlq_queue' = Retained(dlq_queue, Cutoff(dlq_now, dlq_config.retention_period_secs))
    /\ UNCHANGED <<dlq_config, dlq_lock, dlq_pc, dlq_op, dlq_before, dlq_now, dlq_next_id,
                   dlq_spin>>
    /\ UNCHANGED dlqFrame

\* A second passes.
DlqTick ==
    /\ dlq_now < MaxDlqNow
    /\ dlq_now' = dlq_now + 1
    /\ UNCHANGED <<dlq_config, dlq_queue, dlq_lock, dlq_pc, dlq_op, dlq_before, dlq_next_id,
                   dlq_spin>>
    /\ UNCHANGED dlqFrame

\* The steps of a caller inside add_failed_operation.
AddStep(c) == MakeRoom(c) \/ PushBack(c) \/ PersistToDisk(c) \/ AddReturn(c)

NextDlq ==
    \/ \E c \in Callers : AddFailedOperation(c)
    \/ \E c \in Callers : MakeRoom(c)
    \/ \E c \in Callers : PushBack(c)
    \/ \E c \in Callers : PersistToDisk(c)
    \/ \E c \in Callers : AddReturn(c)
    \/ \E id \in 1..MaxDlqOps : RemoveFailedOperation(id)
    \/ CleanupExpired
    \/ DlqTick

SpecDlq == InitDlq /\ [][NextDlq]_vars

\* The runtime keeps polling a task that can take a step.
FairDlq == SpecDlq /\ \A c \in Callers : WF_vars(AddStep(c))

\* ================================================================= claims

\* C1: if every connection attempt fails, one connect call makes at most the
\* configured number of attempts (5 in the legacy connect_with_retry,
\* max_retries + 1 in the refactored connect) and then returns a Connection
\* error; a call that has returned makes no further attempt.
C1_BoundedAttempts ==
    \A c \in Callers :
        /\ attempts[c] <= (IF impl = "legacy" THEN MAX_RETRIES ELSE max_retries + 1)
        /\ (op[c] = "connect" /\ pc[c] = "ret" /\ result[c].kind # "Ok")
              => result[c].kind = "Connection"
        /\ (impl = "refactored" /\ op[c] = "connect" /\ pc[c] = "ret" /\ result[c].kind # "Ok")
              => attempts[c] = max_retries + 1

C1_Witness ==
    \E c \in Callers :
        /\ impl = "legacy" /\ op[c] = "connect" /\ pc[c] = "ret"
        /\ result[c].kind = "Connection" /\ attempts[c] = MAX_RETRIES

\* C2: after connect_with_retry has failed by exhausting its attempts, one
\* later call that finds the remote reachable succeeds, leaves the client
\* connected and resets the retry counter to 0. Stated of the step that ends
\* a call's first turn of the loop while the remote accepts connections.
C2_ReconnectAfterExhaustion ==
    [][\A c \in Callers :
          (/\ op[c] = "connect"
           /\ pc[c] \in {"cwr_loop", "rc_attempt"}
           /\ attempts[c] = 0
           /\ CanAccept
           /\ pc'[c] = "ret")
          => (result'[c].kind = "Ok" /\ connected' /\ retry_count' = 0)]_vars

\* C3: a connect on a Connected client first disconnects in an orderly way,
\* so no stream is ever replaced without having been closed.
C3_OrderlyReconnect ==
    \A s \in Socks : socks[s] # "overwritten"

\* C4: once disconnect has returned, no batch task is running.
C4_DisconnectStopsBatchTask ==
    \A c \in Callers :
        (op[c] = "disconnect" /\ pc[c] = "ret")
            => (batch_task = "none" /\ ~batch_processor_handle)

\* C5: disconnect is idempotent: on a disconnected client it succeeds and
\* changes nothing, a second disconnect changes nothing the first left, and
\* after it the connected flag is false and no socket handle is held.
C5_DisconnectIdempotent ==
    LET once == DisconnectState(ClientState)
    IN /\ DisconnectState(once) = once
       /\ ~connected => once = ClientState
       /\ ~once.connected /\ once.ws_stream = NoSock
       /\ \A c \in Callers :
            (op[c] = "disconnect" /\ pc[c] = "ret")
                => (result[c].kind = "Ok" /\ ~connected /\ ws_stream = NoSock)

C5_Witness ==
    \E c \in Callers :
        /\ op[c] = "disconnect" /\ pc[c] = "ret" /\ ~call_conn[c]
        /\ \E s \in Socks : socks[s] = "closed"

\* C6: the response send_request returns is the remote's response to the
\* request of that very call.
C6_ResponseMatchesRequest ==
    \A c \in Callers :
        (op[c] = "send_request" /\ pc[c] = "ret" /\ result[c].kind = "Ok")
            => result[c].resp = cur[c]

\* C7: on the non-batched path at most one request is in flight: from the
\* write of a request to the return of its call, the caller holds the
\* client and no other send_request is between its write and its return.
C7_OneRequestInFlight ==
    LET inflight == {c \in Callers : op[c] = "send_request" /\ cur[c] # 0}
    IN /\ Cardinality(inflight) <= 1
       /\ \A c \in inflight : lock = c

C7_Witness ==
    \E c \in Callers, d \in Callers :
        /\ c # d
        /\ op[c] = "send_request" /\ pc[c] = "recv" /\ cur[c] = 2
        /\ pc[d] = "idle"

\* C8: every send_batched_request call eventually returns.
C8_BatchedCallReturns ==
    \A c \in Callers : (pc[c] = "bwait") ~> (pc[c] # "bwait")

\* C9: a send_batched_request issued while the client is disconnected
\* returns a ConnectionError.
C9_DisconnectedBatchedFails ==
    \A c \in Callers :
        (op[c] = "send_batched" /\ pc[c] = "ret" /\ ~call_conn[c] /\ ~connected)
            => result[c].kind = "Connection"

\* C10: one tick of the batch processor removes at most MAX_BATCH requests,
\* from the front of the queue and in order, and leaves the others queued in
\* their order; it takes MAX_BATCH of them when the queue holds more.
C10_TickDrainsAtMostTen ==
    [][(batch_task = "tick" /\ batch_task' \in {"process", "reject"})
        => /\ Len(batch') <= MAX_BATCH
           /\ batch' \o request_queue' = request_queue
           /\ Len(request_queue) > MAX_BATCH => Len(batch') = MAX_BATCH]_vars

C10_Witness ==
    /\ batch_task = "process"
    /\ Len(batch) = MAX_BATCH
    /\ request_queue # <<>>

\* The ids held by a sequence of requests.
Ids(q) == {q[i] : i \in 1..Len(q)}

RateLimited == Res("Validation", "rate_limit", 0)

\* C11: when the admission check denies a tick, every request drained in
\* that tick is sent the rate-limit error, in order and with none left out,
\* a caller still waiting for it receives exactly that error, and no drained
\* request goes back to the queue.
C11_DeniedTickRejectsAll ==
    [][batch_task = "reject"
        => /\ batch # <<>>
           /\ Ids(batch) \cap Ids(request_queue') = {}
           /\ batch' # batch
                => /\ batch' = Tail(batch)
                   /\ sent_log' = Append(sent_log, Head(batch))
                   /\ \A c \in Callers :
                        (pc[c] = "bwait" /\ cur[c] = Head(batch))
                            => chan'[c] = RateLimited
           /\ batch_task' # "reject" => (batch' = <<>> /\ batch_task' = "tick")]_vars

C11_Witness ==
    \E c \in Callers :
        /\ pc[c] = "bwait" /\ chan[c] = RateLimited
        /\ Len(sent_log) >= 2 /\ sent_log[Len(sent_log)] = cur[c]
        /\ request_queue = <<>> /\ batch = <<>>

\* C12: the batch processor sends one result, and only one, for every request
\* it has drained and worked through; a waiting caller's channel holds a
\* result exactly when the result sent was for its own request; and a request
\* whose receiver was dropped does not keep the requests behind it from
\* being answered.
C12_OneResultOnOwnChannel ==
    /\ \A i, j \in 1..Len(sent_log) : sent_log[i] = sent_log[j] => i = j
    /\ Ids(sent_log) \cap (Ids(batch) \cup Ids(request_queue)) = {}
    /\ \A c \in Callers :
        pc[c] = "bwait"
            => /\ chan[c] # ChanClosed
               /\ chan[c] # ChanEmpty <=> cur[c] \in Ids(sent_log)
               /\ cur[c] \in Ids(sent_log) \cup Ids(batch) \cup Ids(request_queue)

\* A caller holds the result of its request although the request drained
\* before it had lost its receiver.
C12_Witness ==
    \E c \in Callers :
        /\ pc[c] = "bwait" /\ chan[c].kind = "Ok"
        /\ Len(sent_log) >= 2
        /\ sent_log[Len(sent_log)] = cur[c]
        /\ \A d \in Callers : cur[d] # sent_log[Len(sent_log) - 1]

\* C13: send_request reports a timeout and a closed connection as two
\* distinct error kinds, Timeout and Connection, and returns an error
\* whenever it got no response.
C13_TimeoutDistinctFromClosed ==
    \A c \in Callers :
        (op[c] \in {"send_request", "send_batched"} /\ pc[c] = "ret")
            => /\ result[c].why = "timeout" => result[c].kind = "Timeout"
               /\ result[c].why = "closed" => result[c].kind = "Connection"
               /\ result[c].why \in {"timeout", "closed"} => result[c].kind # "Ok"

\* C14: the backoff delays of one connect call never decrease from one
\* failure to the next, never exceed 2^BACKOFF_CAP = 32 base delays, and each
\* is the base delay times 2^min(attempt, 5), the attempt being the client's
\* retry counter in the legacy client and the loop index in the refactored.
C14_BackoffMonotoneCapped ==
    [][\A c \in Callers :
          (op[c] = "connect" /\ op'[c] = "connect")
            => /\ delay'[c] >= delay[c]
               /\ delay'[c] <= 32
               /\ delay'[c] # delay[c]
                    => \E k \in 0..BACKOFF_CAP :
                         /\ delay'[c] = 2^k
                         /\ k = Min(IF impl = "legacy" THEN retry_count' ELSE attempt[c],
                                    BACKOFF_CAP)]_vars

\* A connect sleeps at the cap for the second time.
C14_Witness ==
    \E c \in Callers :
        /\ impl = "refactored" /\ op[c] = "connect" /\ pc[c] = "rc_sleep"
        /\ attempt[c] > BACKOFF_CAP /\ delay[c] = 32

\* The three constraints on a custom pipeline, each on its own.
CountOk(steps) == Len(steps) <= MAX_PIPELINE_STEPS
TimeoutLong(st) == (IF st.timeout = NoTimeout THEN DEFAULT_STEP_TIMEOUT ELSE st.timeout) > MAX_STEP_TIMEOUT
TimeoutsOk(steps) == \A i \in 1..Len(steps) : ~TimeoutLong(steps[i])
ToolsOk(steps) == \A i \in 1..Len(steps) : steps[i].tool \in KnownTools
Handled == phase # "submitted"

\* C15: a custom pipeline passes validation exactly when it has at most 50
\* steps, every step's timeout (300 s when absent) is at most 10 minutes and
\* every step's tool is in the allowlist; a pipeline that violates exactly
\* one of the three is rejected with a validation error that names that
\* constraint, and for a timeout or a tool a step that violates it (and its
\* tool).
C15_ValidationIffConstraints ==
    (arguments.kind = "pipeline" /\ Handled)
        => LET st == arguments.steps
               c == CountOk(st)
               t == TimeoutsOk(st)
               k == ToolsOk(st)
           IN /\ phase # "rejected" <=> (c /\ t /\ k)
              /\ phase = "rejected" => presult.kind = "Validation"
              /\ (~c /\ t /\ k) => presult.why = "too_complex"
              /\ (c /\ ~t /\ k)
                    => /\ presult.why = "timeout_too_long"
                       /\ presult.step \in 1..Len(st)
                       /\ TimeoutLong(st[presult.step])
              /\ (c /\ t /\ ~k)
                    => /\ presult.why = "unknown_tool"
                       /\ presult.step \in 1..Len(st)
                       /\ st[presult.step].tool \notin KnownTools
                       /\ presult.tool = st[presult.step].tool

\* A pipeline of 51 good steps has been rejected as too complex.
C15_Witness ==
    /\ arguments.kind = "pipeline" /\ phase = "rejected"
    /\ Len(arguments.steps) = MAX_PIPELINE_STEPS + 1
    /\ TimeoutsOk(arguments.steps) /\ ToolsOk(arguments.steps)
    /\ presult.why = "too_complex"

\* C16: a pipeline call that fails validation executes no step: no executor
\* is invoked and nothing is appended to the context, and an executor is
\* invoked only for a pipeline that satisfies every constraint.
C16_RejectedRunsNothing ==
    LET valid == \/ arguments.kind = "template" /\ arguments.template \in TemplateNames
                 \/ /\ arguments.kind = "pipeline"
                    /\ CountOk(arguments.steps)
                    /\ TimeoutsOk(arguments.steps)
                    /\ ToolsOk(arguments.steps)
    IN /\ (phase = "rejected" \/ ~valid)
            => (invocations = 0 /\ exec_log = <<>> /\ results = <<>>)
       /\ (Handled /\ ~valid) => (phase = "rejected" /\ presult.kind = "Validation")

\* A pipeline whose first two steps are good and whose third names an unknown
\* tool has been rejected.
C16_Witness ==
    /\ arguments.kind = "pipeline" /\ phase = "rejected"
    /\ Len(arguments.steps) = 3
    /\ presult.why = "unknown_tool" /\ presult.step = 3
    /\ invocations = 0

\* C17: the steps of a run execute in the resolved order, each after the
\* step before it in the chain, and a step's executor finds in the context
\* every result appended before it ran.
C17_OrderAndVisibility ==
    /\ \A i, j \in 1..Len(exec_log) : i < j => exec_log[i] < exec_log[j]
    /\ Len(results) <= Len(exec_log)
    /\ \A i \in 1..Len(results) :
        /\ results[i].step = exec_log[i]
        /\ results[i].saw = {results[j].step : j \in 1..(i - 1)}

C17_Witness ==
    /\ phase = "completed"
    /\ Len(results) = 3
    /\ results[3].saw = {1, 2}

\* C18: with fail_fast, a step that failed after its last attempt ends the
\* run: no later step is executed and the call returns that failure with the
\* results so far. Without fail_fast the run goes on, every step whose
\* condition holds is executed, and the failures are reported together when
\* the run is over.
C18_FailFastOrCollect ==
    LET n == Len(results)
        eligible(i) == ConditionHolds(PipelineSteps[i], i, results)
    IN /\ phase = "aborted" <=> (arguments.fail_fast /\ FailedNames(results) # {})
       /\ phase = "aborted"
            => /\ ~results[n].success
               /\ results[n].attempts = MaxAttempts(PipelineSteps[results[n].step])
               /\ FailedNames(results) = {results[n].step}
               /\ exec_log[Len(exec_log)] = results[n].step
               /\ presult.kind = "StepFailed"
               /\ presult.step = results[n].step
               /\ presult.failures = {results[n].step}
       /\ phase = "completed"
            => /\ \A i \in 1..Len(PipelineSteps) : i \in ResultNames(results) <=> eligible(i)
               /\ presult.failures = FailedNames(results)
               /\ presult.kind = (IF FailedNames(results) = {} THEN "Ok" ELSE "StepFailed")

\* A run without fail_fast went on after two failed steps and reports both.
C18_Witness ==
    /\ phase = "completed" /\ ~arguments.fail_fast
    /\ Len(results) = 3
    /\ ~results[1].success /\ ~results[2].success /\ results[3].success
    /\ presult.failures = {1, 2}

\* The waits w are non-decreasing and none exceeds cap.
WaitsOk(w, cap) ==
    /\ \A i \in 1..Len(w) : w[i] <= cap
    /\ \A i, j \in 1..Len(w) : i < j => w[i] <= w[j]

\* C19: a step's executor is invoked at most max_attempts times (once when
\* the step has no retry_config), and the waits between its attempts never
\* decrease and never exceed max_delay.
C19_AttemptsAndWaitsBounded ==
    /\ \A i \in 1..Len(results) :
        LET st == PipelineSteps[results[i].step]
        IN /\ results[i].attempts <= (IF st.retry_config.present THEN st.retry_config.max_attempts ELSE 1)
           /\ WaitsOk(results[i].waits, st.retry_config.max_delay)
    /\ (phase \in {"executing", "backoff"} /\ idx <= Len(PipelineSteps))
        => /\ step_attempts <= (IF CurStep.retry_config.present THEN CurStep.retry_config.max_attempts ELSE 1)
           /\ WaitsOk(waits, CurStep.retry_config.max_delay)

\* A step was tried five times and its last two waits were max_delay.
C19_Witness ==
    \E i \in 1..Len(results) :
        /\ results[i].attempts = 5
        /\ results[i].waits = <<100, 200, 250, 250>>

\* C20: a step whose executor fails its first k invocations, k less than
\* max_attempts, is recorded as successful after k + 1 invocations and k
\* backoff waits; a run all of whose steps are such is never aborted and
\* reports success, with fail_fast too.
C20_RetryThenSuccess ==
    LET recovers(st) == st.fails < MaxAttempts(st)
    IN /\ \A i \in 1..Len(results) :
            LET st == PipelineSteps[results[i].step]
            IN recovers(st)
                => /\ results[i].success
                   /\ results[i].attempts = st.fails + 1
                   /\ Len(results[i].waits) = st.fails
       /\ (\A i \in 1..Len(PipelineSteps) : recovers(PipelineSteps[i]))
            => /\ phase # "aborted"
               /\ phase = "completed" => presult.kind = "Ok"

\* A fail_fast run reports success although a step failed twice first.
C20_Witness ==
    /\ phase = "completed" /\ arguments.fail_fast /\ presult.kind = "Ok"
    /\ \E i \in 1..Len(results) :
        /\ PipelineSteps[results[i].step].fails = 2
        /\ results[i].success /\ results[i].attempts = 3
        /\ results[i].waits = <<100, 200>>

\* C21: a step whose condition is false is skipped without error: the run
\* moves on to the next step, the step's executor is not invoked, nothing is
\* added to the results and execution_count stays as it was; when the run is
\* over execution_count is the number of steps that were executed.
C21_FalseConditionSkips ==
    [][/\ (/\ phase = "executing"
           /\ idx <= Len(PipelineSteps)
           /\ step_attempts = 0
           /\ \/ /\ CurStep.condition = "prev_ok"
                 /\ \A i \in 1..Len(results) :
                        results[i].step = CurName - 1 => ~results[i].success
              \/ /\ CurStep.condition = "prev_failed"
                 /\ \A i \in 1..Len(results) :
                        results[i].step = CurName - 1 => results[i].success)
            => /\ idx' = idx + 1
               /\ phase' = phase
               /\ presult' = presult
               /\ results' = results
               /\ execution_count' = execution_count
               /\ invocations' = invocations
               /\ exec_log' = exec_log
       /\ phase' = "completed"
            => /\ execution_count' = Len(exec_log')
               /\ ResultNames(results') = {exec_log'[i] : i \in 1..Len(exec_log')}]_vars

\* Step 1 succeeded, step 2 ran only if step 1 had failed: the run is over
\* with step 1's result alone.
C21_Witness ==
    /\ phase = "completed" /\ presult.kind = "Ok"
    /\ Len(PipelineSteps) = 2
    /\ PipelineSteps[2].condition = "prev_failed"
    /\ ResultNames(results) = {1}
    /\ execution_count = 1 /\ invocations = 1

Terminal == phase \in {"completed", "aborted"}

\* C22: a run that passed validation reaches a terminal state, Completed or
\* Aborted, and stays in it; it is Aborted only if fail_fast is set and a
\* step failed its last attempt.
C22_OneTerminalState ==
    /\ (phase = "executing") ~> Terminal
    /\ [][Terminal => phase' = phase]_vars
    /\ [](phase = "aborted"
            => /\ arguments.fail_fast
               /\ \E i \in 1..Len(results) :
                    LET st == PipelineSteps[results[i].step]
                    IN /\ ~results[i].success
                       /\ results[i].attempts =
                            (IF st.retry_config.present THEN st.retry_config.max_attempts ELSE 1))

C22_Witness ==
    /\ phase = "aborted"
    /\ Len(results) = 2
    /\ results[2].attempts = 3

\* The result stored under a name: the set of the results of that name.
GetResult(rs, name) == {rs[i] : i \in {j \in 1..Len(rs) : rs[j].step = name}}

\* C25: add_result raises execution_count by exactly 1 and leaves the new
\* result, and it alone, retrievable under its name, the results of the other
\* names and the variables being untouched; set_variable changes neither
\* execution_count nor the results.
C25_AddResultCounts ==
    [][/\ last_call'.name = "add_result"
            => /\ execution_count' = execution_count + 1
               /\ \E r \in GetResult(results', last_call'.key) :
                    /\ GetResult(results', last_call'.key) = {r}
                    /\ r.success = last_call'.ok
               /\ Len(SelectSeq(results', LAMBDA x : x.step = last_call'.key)) = 1
               /\ \A n \in KnownTools \ {last_call'.key} :
                    GetResult(results', n) = GetResult(results, n)
               /\ variables' = variables
       /\ last_call'.name = "set_variable"
            => /\ execution_count' = execution_count
               /\ results' = results
               /\ variables'[last_call'.key] \in VarValues]_vars

\* A second result for a name has replaced the first.
C25_Witness ==
    /\ last_call = Call("add_result", "observe", TRUE)
    /\ execution_count = 2
    /\ Len(results) = 1
    /\ variables["k1"] = "a"

\* The dependencies between the names of the subset asked for.
Induced == {e \in fn_args.edges : e[1] \in RangeOf(fn_args.subset) /\ e[2] \in RangeOf(fn_args.subset)}

\* Some names each depend on one of them: the dependencies have a cycle.
Cyclic(edges) ==
    \E T \in (SUBSET Nodes) \ {{}} : \A n \in T : \E m \in T : <<n, m>> \in edges

Ordered == fn_result.kind # "none"

\* C23: for a subset without a cycle get_execution_order returns every name of
\* the subset exactly once, each dependency before the names that depend on
\* it; for the empty subset it returns the empty order.
C23_AcyclicOrder ==
    Ordered /\ ~Cyclic(Induced) =>
        /\ fn_result.kind = "Ok"
        /\ Len(fn_result.order) = Len(fn_args.subset)
        /\ RangeOf(fn_result.order) = RangeOf(fn_args.subset)
        /\ \A i, j \in 1..Len(fn_result.order) :
              <<fn_result.order[i], fn_result.order[j]>> \in fn_args.edges => j < i
        /\ fn_args.subset = <<>> => fn_result.order = <<>>

C23_Witness ==
    /\ Ordered
    /\ fn_args.edges = {<<"b", "a">>, <<"c", "b">>}
    /\ fn_args.subset = <<"c", "a", "b">>
    /\ fn_result = OrderOk(<<"a", "b", "c">>)

\* C24: for a subset whose dependencies have a cycle get_execution_order
\* returns the CircularDependency error and no order.
C24_CycleIsError ==
    Ordered /\ Cyclic(Induced) =>
        fn_result.kind = "CircularDependency" /\ fn_result.order = <<>>

C24_Witness ==
    /\ Ordered
    /\ fn_args.edges = {<<"b", "a">>, <<"c", "b">>, <<"a", "c">>}
    /\ fn_args.subset = <<"a", "b", "c">>
    /\ fn_result.kind = "CircularDependency"

\* C26: a pipeline call that names a template other than
\* observe_experiment_replay and debug_performance is rejected with a
\* validation error and no step is executed; a call that names one of the two
\* is not rejected, and its run invokes an executor.
C26_TemplateByName ==
    arguments.kind = "template" =>
        IF arguments.template \in {"observe_experiment_replay", "debug_performance"}
        THEN /\ phase # "rejected"
             /\ Terminal => (invocations >= 1 /\ Len(exec_log) >= 1)
        ELSE /\ invocations = 0 /\ exec_log = <<>> /\ results = <<>>
             /\ Handled => /\ phase = "rejected"
                           /\ presult.kind = "Validation"
                           /\ presult.why = "unknown_template"

C26_Witness ==
    /\ arguments.kind = "template"
    /\ arguments.template = "no_such_template"
    /\ phase = "rejected"
    /\ presult.why = "unknown_template"
    /\ invocations = 0

FreshRun(u) ==
    LET resets == {i \in 1..Len(decisions) : decisions[i].kind = "reset" /\ decisions[i].user = u}
        last == IF resets = {} THEN 0 ELSE CHOOSE i \in resets : \A j \in resets : j <= i
    IN  SelectSeq(SubSeq(decisions, last + 1, Len(decisions)),
                  LAMBDA d : d.kind = "check" /\ d.user = u)

\* The operation has a limit of its own.
HasOperationLimit(operation) ==
    config.enable_per_operation_limits /\ config.operation_limits[operation] > 0

\* C28: of the check_limit calls a fresh user makes within one minute of the
\* first, for operations without a limit of their own, the first
\* requests_per_minute are allowed and the next one is denied.
C28_FirstCallsAllowed ==
    \A u \in Users :
        LET run == FreshRun(u)
        IN  \A k \in 1..Len(run) :
                (/\ run[k].at - run[1].at < MINUTE
                 /\ \A i \in 1..k : ~HasOperationLimit(run[i].operation))
                => /\ k <= config.requests_per_minute => run[k].allowed
                   /\ k = config.requests_per_minute + 1 => ~run[k].allowed

\* C29: check_permission authorizes exactly when the caller's role holds the
\* permission the operation maps to, whatever the resource.
C29_AuthorizedIffRoleHolds ==
    fn_result.kind = "Ok" =>
        fn_result.authorized =
            (map_operation_to_permission(fn_args.operation) \in role_permissions(fn_args.role))

\* C30: a validate_token(t) call made after a revoke_token(t) call has
\* returned Ok never returns Ok, whatever tokens are generated and whatever
\* is cleaned up in between.
C30_RevokedStaysInvalid ==
    \A c \in Callers :
        (auth_op[c].op = "validate" /\ auth_op[c].after_revoke)
            => auth_result[c].kind # "Ok"

\* A token was revoked, the cleanup has taken it off the revocation list
\* while it still decodes, another token has been generated, and a
\* validate_token call made after all that has failed on the session check.
C30_Witness ==
    \E c \in Callers :
        /\ auth_op[c].op = "validate" /\ auth_op[c].after_revoke
        /\ auth_pc[c] = "idle"
        /\ auth_result[c] = AuthRes("Err", "Session not active")
        /\ revoked_tokens[auth_op[c].token] = NotRevoked
        /\ \A t \in Tokens : issued[t] # NotIssued

\* The quota of a bucket: its two counters and its burst tokens.
Quota(b) == <<b.requests_this_minute, b.requests_this_hour, b.burst_tokens>>

\* C38: a check_limit call that returns false consumes no quota: the user's
\* minute and hour counters and burst tokens after the call are those the
\* bucket had before it, once brought up to the time of the call.
C38_DeniedConsumesNothing ==
    [][\A u \in Users :
          (/\ Len(decisions') = Len(decisions) + 1
           /\ decisions'[Len(decisions')].kind = "check"
           /\ decisions'[Len(decisions')].user = u
           /\ ~decisions'[Len(decisions')].allowed)
          => LET before == IF user_buckets[u] = NoBucket THEN NewBucket(config, now)
                           ELSE user_buckets[u]
             IN  Quota(user_buckets'[u]) = Quota(Refreshed(before, config, now))]_vars

\* C34: when a send_request of the legacy client fails because the
\* connection was closed (receive_message yielded no message), the client is
\* left disconnected: the connected flag is false and the socket handle is
\* cleared.
C34_ClosedLeavesDisconnected ==
    \A c \in Callers :
        (/\ impl = "legacy"
         /\ pc[c] = "ret"
         /\ op[c] = "send_request"
         /\ result[c] = Res("Connection", "closed", 0))
        => (~connected /\ ws_stream = NoSock)

\* C33: while a connect call waits in the backoff sleep between two
\* attempts, that call does not hold the lock around the client.
C33_SleepWithoutLock ==
    \A c \in Callers : pc[c] \in {"cwr_sleep", "rc_sleep"} => lock # c

\* C35: in the refactored client a request is added to the queue only while
\* the client is connected: every step that makes the request queue longer
\* is taken with the connected flag set.
C35_EnqueueOnlyConnected ==
    [][(impl = "refactored" /\ Len(request_queue') > Len(request_queue))
          => connected]_vars

\* C36: in the refactored client, once a send_request call that enqueued a
\* request has its result (a response, a closed channel or a timeout), that
\* request is no longer in the request queue.
C36_ReturnedRequestNotQueued ==
    \A c \in Callers :
        (/\ impl = "refactored"
         /\ pc[c] = "ret"
         /\ op[c] = "send_batched"
         /\ cur[c] # 0)
        => cur[c] \notin Ids(request_queue)

\* C37: every tool name accepted by pipeline validation is registered in the
\* orchestrator: while a custom pipeline that passed validation is executed,
\* the lookup of the executor succeeds for each of its steps.
C37_ValidatedToolsRegistered ==
    (arguments.kind = "pipeline" /\ phase \in {"executing", "backoff", "completed", "aborted"})
        => \A i \in 1..Len(PipelineSteps) :
               LookupTool(PipelineSteps[i].tool) = "executor"

\* A validated custom pipeline with an anomaly step has run to its end.
C37_Witness ==
    /\ arguments.kind = "pipeline"
    /\ phase = "completed"
    /\ \E i \in 1..Len(PipelineSteps) : PipelineSteps[i].tool = "anomaly"
    /\ invocations > 0

\* C31: for each lazily initialised component every getter call returns the
\* same instance, and the component is constructed at most once, whatever
\* the interleaving of the tasks' first calls.
C31_OneInstance ==
    /\ \A k \in Components : constructed[k] <= 1
    /\ \A e1 \in lz_log, e2 \in lz_log : e1.comp = e2.comp => e1.inst = e2.inst

\* Two tasks found the same cell empty, went through the mutex, and both
\* calls have returned.
C31_Witness ==
    \E e1 \in lz_log, e2 \in lz_log :
        /\ e1.task # e2.task
        /\ e1.comp = e2.comp
        /\ e1.slow /\ e2.slow

\* C32: a getter of a component that depends on other lazy components never
\* waits for the initialization mutex while the task it runs on holds that
\* mutex, so the call returns.
C32_NeverWaitsOnOwnMutex ==
    \A t \in Callers :
        (lz_stack[t] # <<>> /\ TopFrame(t).pc = "lock") => init_mutex # t

\* The newest n entries of q, in their order.
KeepNewest(q, n) == SubSeq(q, Len(q) - Min(Len(q), n) + 1, Len(q))

\* C39: when add_failed_operation has pushed its operation the queue holds
\* at most max_size operations, and they are the newest of those it found
\* followed by the one added: room is made by dropping from the front.
C39_BoundedDropsOldest ==
    [][\A c \in Callers :
          (dlq_pc[c] = "push" /\ dlq_pc'[c] # "push")
          => /\ Len(dlq_queue') <= dlq_config.max_size
             /\ dlq_queue' = KeepNewest(dlq_before[c] \o <<dlq_op[c]>>,
                                        dlq_config.max_size)]_vars

\* An add that found the queue full has pushed its operation.
C39_Witness ==
    \E c \in Callers :
        /\ dlq_pc[c] = "ret"
        /\ dlq_config.max_size = MaxSize
        /\ Len(dlq_before[c]) = MaxSize
        /\ Len(dlq_queue) = MaxSize
        /\ dlq_queue[Len(dlq_queue)] = dlq_op[c]

\* C40: add_failed_operation terminates and releases the queue lock for
\* every configuration: a call that holds the lock returns in the end.
C40_AddTerminates ==
    \A c \in Callers : (dlq_pc[c] # "idle") ~> (dlq_pc[c] = "idle" /\ dlq_lock # c)

====
